---- MODULE Spec2Model ----
(***************************************************************************)
(* Media ingestion and cleanup pipeline of the campaign backend: the press *)
(* controller (createPress, updatePress, deletePress, deleteAttachment),   *)
(* its upload helper uploadToCloudinary, the staging cleanup helpers, the  *)
(* press router chain, and the media controller (uploadMedia,             *)
(* deleteMedia).                                                           *)
(*                                                                         *)
(* An await is a scheduling point: the code between two awaits of one      *)
(* async function is one action.  The per-file uploads started by          *)
(* Promise.all run as separate tasks that interleave at their awaits.      *)
(***************************************************************************)
EXTENDS Integers, Sequences, FiniteSets, TLC

\* Bounds of the model.
MaxFiles == 2
MaxRequests == 2
MaxCleaners == 3
MaxCalls == 3
MaxUpdaters == 2

VARIABLES
  reqNo,           \* number of requests that have arrived
  req,             \* the request being served (inputs of the handler)
  pc,              \* position of the handler (or of the router chain)
  task,            \* per staged file: position of its uploadToCloudinary call
  res,             \* per staged file: value its upload promise resolved with
  completed,       \* file ids in the order their upload promises settled
  filesToCleanup,  \* createPress / updatePress: let filesToCleanup
  cleanupArg,      \* the array safeFileCleanup is iterating over (rest of it)
  data,            \* pressData / updateData: featuredImage, attachments
  existingPress,   \* the document findById returned
  disk,            \* paths present in uploads/temp
  remote,          \* assets present in the remote store
  created,         \* assets the current request created (history)
  destroyLog,      \* destroy calls the current request issued (history)
  pressDb,         \* persisted press releases, by id
  idx,             \* deletePress: position of the for..of loop over attachments
  responses,       \* HTTP responses sent for the current request, in order
  mediaDb,         \* persisted media items
  uploadedMedia,   \* uploadMedia: const uploadedMedia = []
  mediaItem,       \* deleteMedia: the document findById returned
  outcome,         \* uploadMedia: what happened to each file (history)
  cleaner,         \* staging cleanup calls racing on uploads/temp
  gateway,         \* stand-alone remote delete calls (history of each call)
  updater,         \* updatePress requests in progress at the same time
  finalRuns,       \* times the finally block of the handler was entered (history)
  unlinkCalls,     \* uploadMedia: fs.unlink calls made per staged file (history)
  reply,           \* an error on its way through a catch block to the response
  classify,        \* one file on its way from the upload filter to the record
  workflow         \* per press release id: published, status and featured as stored

vars == <<reqNo, req, pc, task, res, completed, filesToCleanup, cleanupArg,
          data, existingPress, disk, remote, created, destroyLog, pressDb,
          idx, responses, mediaDb, uploadedMedia, mediaItem,
          outcome, cleaner, gateway, updater, finalRuns,
          unlinkCalls, reply, classify, workflow>>

\* State of the media controller, and of the stand-alone cleanup calls.
mediaVars == <<mediaDb, uploadedMedia, mediaItem, outcome>>
cleanVars == <<cleaner>>
sideVars == <<gateway, updater, reply, classify, workflow>>
histVars == <<finalRuns, unlinkCalls>>

----------------------------------------------------------------------------
\* Staged files.

NoFile == [mime |-> "none", ext |-> "none"]

\* Files a client may send: declared MIME class and extension.
Candidates == { [mime |-> "image", ext |-> "jpg"],
                [mime |-> "video", ext |-> "mp4"],
                [mime |-> "application", ext |-> "exe"] }

allowedImageTypes == {"jpeg", "jpg", "png", "gif", "webp", "svg"}
allowedVideoTypes == {"mp4", "avi", "mov", "wmv", "webm", "mkv", "flv", "m4v"}
allowedDocTypes == {"pdf", "doc", "docx"}

\* upload.js fileFilter: TRUE when the file is accepted.
fileFilter(file) ==
  \/ file.mime = "image" /\ file.ext \in allowedImageTypes
  \/ file.mime = "video" /\ file.ext \in allowedVideoTypes
  \/ file.mime = "application" /\ file.ext \in allowedDocTypes

Accepted == { f \in Candidates : fileFilter(f) }

\* Sequences of accepted files of length 0..n.
RECURSIVE SeqsUpTo(_)
SeqsUpTo(n) ==
  IF n = 0 THEN { <<>> }
  ELSE LET shorter == SeqsUpTo(n - 1)
       IN shorter \cup { Append(s, f) : s \in { t \in shorter : Len(t) = n - 1 },
                                        f \in Accepted }

FEATURED == 0
AllFileIds == 0..MaxFiles

AttachmentIds(r) == 1..Len(r.atts)
FileIds(r) == (IF r.feat # NoFile THEN {FEATURED} ELSE {}) \cup AttachmentIds(r)
FileOf(r, f) == IF f = FEATURED THEN r.feat ELSE r.atts[f]

\* multer diskStorage filename: unique per request and file.
Path(n, f) == <<n, f>>
StagedPaths(n, r) == { Path(n, f) : f \in FileIds(r) }

----------------------------------------------------------------------------
\* Remote store (Cloudinary) and records.

\* A public id of the remote store: the upload that made it, and the
\* 'thumb_' prefix uploadMedia gives a video's thumbnail.
PublicId(n, f) == [req |-> n, file |-> f, prefix |-> ""]
ThumbId(id) == [id EXCEPT !.prefix = "thumb_"]
NoId == [req |-> 0, file |-> 0, prefix |-> ""]
NoResult == [publicId |-> NoId, resourceType |-> "none"]
NoImage == [publicId |-> NoId]
NoRecord == [exists |-> FALSE, featuredImage |-> NoImage, attachments |-> <<>>]
NoMedia == [type |-> "none", publicId |-> NoId, filename |-> 0]
NoData == [featuredImage |-> NoResult, attachments |-> <<>>, hasAttachments |-> FALSE]
NoUpdater == [pc |-> "idle", n |-> 0, existing |-> NoRecord, new |-> <<>>, status |-> 0]
NoRequest == [op |-> "none", chain |-> "none", valid |-> TRUE, feat |-> NoFile,
              atts |-> <<>>, id |-> 0, att |-> 0,
              uploadError |-> "none"]

videoExtensions == {"mp4", "mov", "avi", "webm", "mkv"}

\* uploadToCloudinary: resourceType from the extension of the staged path.
ResourceTypeOf(ext) == IF ext \in videoExtensions THEN "video" ELSE "image"

\* createPress / updatePress: type of an attachment from its MIME type.
AttachmentType(mime) == IF mime = "video" THEN "video" ELSE "image"

\* cloudinary.uploader.upload resolved: the asset it created.
Asset(n, f, kind) == [publicId |-> PublicId(n, f), resourceType |-> kind]

\* What uploadToCloudinary returns for an asset.
Uploaded(asset) == [publicId |-> asset.publicId, resourceType |-> asset.resourceType]

\* The object the attachment callback returns: {...uploaded, type, filename, size}.
AttachmentOf(uploaded, file, f) ==
  [publicId |-> uploaded.publicId, resourceType |-> uploaded.resourceType,
   type |-> AttachmentType(file.mime), filename |-> f]

\* pressSchema.attachments: the fields the schema keeps (no resourceType).
CastAttachment(a) == [type |-> a.type, publicId |-> a.publicId, filename |-> a.filename]
CastAttachments(s) == [i \in 1..Len(s) |-> CastAttachment(s[i])]

\* pressSchema.featuredImage: url, publicId, alt.
CastImage(u) == [publicId |-> u.publicId]

\* cloudinary.uploader.destroy(publicId, {resource_type}) returning normally:
\* the asset of that id and that kind is gone, anything else is untouched.
Destroy(store, publicId, kind) ==
  { a \in store : ~(a.publicId = publicId /\ a.resourceType = kind) }

\* destroy(publicId) without options: resource_type defaults to image.
DefaultKind == "image"

\* attachment.resourceType || 'image' on a persisted attachment: the schema
\* has no resourceType, the field is undefined.
StoredResourceType(att) == DefaultKind

\* A Promise.all that collected the values as the promises settle.
PromiseAllByCompletion(n, values, order) ==
  LET settled == SelectSeq(order, LAMBDA f : f >= 1)
  IN [i \in 1..n |-> values[settled[i]]]

\* Milliseconds after which the SDK aborts a remote call and rejects its
\* promise: uploadToCloudinary passes timeout: 960000; the other calls pass no
\* timeout option and get the SDK's default.
UPLOAD_TIMEOUT == 960000
SDK_TIMEOUT == 60000

\* Remote calls without any deadline.
NoTimeout(call) == 0

TimeoutMs(call) == IF call = "uploadToCloudinary" THEN UPLOAD_TIMEOUT ELSE SDK_TIMEOUT

\* Where a remote call that is not answered successfully continues: its
\* promise rejects, on an error or at the latest when the timeout fires, and
\* execution goes on at the rejection's continuation; with no timeout the
\* await may never return.
Rejects(call, continuation) ==
  IF TimeoutMs(call) > 0 THEN continuation ELSE "hung"

\* Promise.all: the array of the resolved values, by input position.
PromiseAll(n, values, order) == [i \in 1..n |-> values[i]]

\* Array.prototype.filter(path => path !== p)
RECURSIVE Filter(_, _)
Filter(s, p) ==
  IF s = <<>> THEN <<>>
  ELSE IF Head(s) = p THEN Filter(Tail(s), p)
       ELSE <<Head(s)>> \o Filter(Tail(s), p)

Range(s) == { s[i] : i \in 1..Len(s) }

\* No error is being handled.  env is process.env.NODE_ENV.
NoError == [cause |-> "none", paths |-> {}, name |-> "none"]
NoBody == [status |-> 0, texts |-> {}, paths |-> {}, stack |-> FALSE]
NoReply == [pc |-> "idle", env |-> "unset", catcher |-> "none", err |-> NoError,
            body |-> NoBody, n |-> 0]

\* No file is being classified.
NoClassify == [pc |-> "idle", file |-> NoFile, resourceType |-> "none", type |-> "none"]

\* No press release is stored under the id.
NoWorkflow == [exists |-> FALSE, published |-> FALSE, status |-> "draft",
               featured |-> FALSE]

Terminal == {"idle", "ok", "failed"}
Quiescent == pc = "end" /\ \A f \in AllFileIds : task[f] \in Terminal

----------------------------------------------------------------------------
Init ==
  /\ reqNo = 0
  /\ req = NoRequest
  /\ pc = "end"
  /\ task = [f \in AllFileIds |-> "idle"]
  /\ res = [f \in AllFileIds |-> NoResult]
  /\ completed = <<>>
  /\ filesToCleanup = <<>>
  /\ cleanupArg = <<>>
  /\ data = NoData
  /\ existingPress = NoRecord
  /\ disk = {}
  /\ remote = {}
  /\ created = {}
  /\ destroyLog = {}
  /\ pressDb = [i \in 1..MaxRequests |-> NoRecord]
  /\ idx = 1
  /\ responses = <<>>
  /\ mediaDb = {}
  /\ uploadedMedia = <<>>
  /\ mediaItem = NoMedia
  /\ outcome = [f \in AllFileIds |-> "none"]
  /\ cleaner = <<>>
  /\ gateway = <<>>
  /\ updater = [p \in 1..MaxUpdaters |-> NoUpdater]
  /\ finalRuns = 0
  /\ unlinkCalls = [f \in AllFileIds |-> 0]
  /\ reply = NoReply
  /\ classify = NoClassify
  /\ workflow = [i \in 1..MaxRequests |-> NoWorkflow]

----------------------------------------------------------------------------
\* Arrival of a request.  multer (uploadMiddleware.fields / .multiple) has
\* written the accepted files to uploads/temp before the next middleware runs.
\* chain = "router": the request enters through routes/press.js;
\* chain = "controller": the exported controller function is called with the
\* request as it is (validationResult(req) is whatever the request carries).

UploadOps == {"createPress", "updatePress"}
DeleteOps == {"deletePress", "deleteAttachment"}

Fresh(r) ==
  /\ reqNo' = reqNo + 1
  /\ req' = r
  /\ task' = [f \in AllFileIds |-> "idle"]
  /\ res' = [f \in AllFileIds |-> NoResult]
  /\ completed' = <<>>
  /\ filesToCleanup' = <<>>
  /\ cleanupArg' = <<>>
  /\ data' = NoData
  /\ existingPress' = NoRecord
  /\ created' = {}
  /\ destroyLog' = {}
  /\ idx' = 1
  /\ responses' = <<>>
  /\ uploadedMedia' = <<>>
  /\ mediaItem' = NoMedia
  /\ outcome' = [f \in AllFileIds |-> "none"]
  /\ finalRuns' = 0
  /\ unlinkCalls' = [f \in AllFileIds |-> 0]
  /\ disk' = disk \cup StagedPaths(reqNo + 1, r)

ArriveUpload ==
  /\ Quiescent
  /\ reqNo < MaxRequests
  /\ \E op \in UploadOps, chain \in {"router", "controller"}, valid \in BOOLEAN,
        feat \in Accepted \cup {NoFile}, atts \in SeqsUpTo(MaxFiles),
        id \in 1..MaxRequests :
       /\ op = "createPress" => id = reqNo + 1
       /\ Fresh([op |-> op, chain |-> chain, valid |-> valid, feat |-> feat,
                 atts |-> atts, id |-> id, att |-> 0,
              uploadError |-> "none"])
       /\ pc' = IF chain = "router" THEN "validatePress" ELSE op
  /\ UNCHANGED <<remote, pressDb, mediaDb, cleanVars, sideVars>>

\* POST /upload-media of routes/press.js: uploadMiddleware.multiple.
ArriveUploadMedia ==
  /\ Quiescent
  /\ reqNo < MaxRequests
  /\ \E atts \in SeqsUpTo(MaxFiles) :
       Fresh([op |-> "uploadMediaRoute", chain |-> "router", valid |-> TRUE,
              feat |-> NoFile, atts |-> atts, id |-> 0, att |-> 0,
              uploadError |-> "none"])
  /\ pc' = "uploadMediaRoute"
  /\ UNCHANGED <<remote, pressDb, mediaDb, cleanVars, sideVars>>

ArriveDelete ==
  /\ Quiescent
  /\ reqNo < MaxRequests
  /\ \E op \in DeleteOps, id \in 1..MaxRequests, att \in 1..MaxFiles :
       /\ op = "deletePress" => att = 1
       /\ Fresh([op |-> op, chain |-> "router", valid |-> TRUE, feat |-> NoFile,
                 atts |-> <<>>, id |-> id, att |-> att,
              uploadError |-> "none"])
       /\ pc' = op
  /\ UNCHANGED <<remote, pressDb, mediaDb, cleanVars, sideVars>>

----------------------------------------------------------------------------
\* Responses and the finally block.

Respond(status, payload) ==
  responses' = Append(responses, [status |-> status, data |-> payload, errors |-> <<>>])

\* finally { if (filesToCleanup.length > 0) await safeFileCleanup(filesToCleanup) }
\* entered with the list ftc: safeFileCleanup runs up to its first await.
Finally(ftc) ==
  /\ finalRuns' = finalRuns + 1
  /\ cleanupArg' = ftc
  /\ pc' = IF ftc # <<>> THEN "cleanup_access" ELSE "end"

\* safeFileCleanup: await fs.access(filePath)
SafeCleanupAccess ==
  /\ pc = "cleanup_access"
  /\ IF Head(cleanupArg) \in disk
       THEN pc' = "cleanup_unlink" /\ UNCHANGED cleanupArg
       ELSE \* ENOENT: logged, next path
            /\ cleanupArg' = Tail(cleanupArg)
            /\ pc' = IF Tail(cleanupArg) # <<>> THEN "cleanup_access" ELSE "end"
  /\ UNCHANGED <<mediaVars, cleanVars, sideVars, histVars, idx, reqNo, req, task, res, completed, filesToCleanup, data,
                 existingPress, disk, remote, created, destroyLog, pressDb, responses>>

\* safeFileCleanup: await fs.unlink(filePath); an ENOENT is caught and logged.
SafeCleanupUnlink ==
  /\ pc = "cleanup_unlink"
  /\ disk' = disk \ {Head(cleanupArg)}
  /\ cleanupArg' = Tail(cleanupArg)
  /\ pc' = IF Tail(cleanupArg) # <<>> THEN "cleanup_access" ELSE "end"
  /\ UNCHANGED <<mediaVars, cleanVars, sideVars, histVars, idx, reqNo, req, task, res, completed, filesToCleanup, data,
                 existingPress, remote, created, destroyLog, pressDb, responses>>

----------------------------------------------------------------------------
\* uploadToCloudinary(filePath, folder) for the staged file f of the request.

TaskVars == <<task, res, completed, filesToCleanup, disk, remote, created>>

\* A callback whose removal from the cleanup list is lost.
ResolveKeepsList(f) ==
  /\ task' = [task EXCEPT ![f] = "ok"]
  /\ completed' = Append(completed, f)
  /\ UNCHANGED filesToCleanup

\* The promise of file f settles.  For an attachment the callback of
\* attachments.map continues in the same turn: on success it filters the
\* path out of filesToCleanup and returns the attachment object.
Resolve(f) ==
  /\ task' = [task EXCEPT ![f] = "ok"]
  /\ completed' = Append(completed, f)
  /\ filesToCleanup' = IF f = FEATURED THEN filesToCleanup
                       ELSE Filter(filesToCleanup, Path(reqNo, f))

Reject(f) ==
  /\ task' = [task EXCEPT ![f] = "failed"]
  /\ completed' = Append(completed, f)
  /\ UNCHANGED filesToCleanup

\* await fs.access(filePath): a missing file throws 'File not found'.
TaskAccess(f) ==
  /\ task[f] = "access"
  /\ task' = [task EXCEPT ![f] = IF Path(reqNo, f) \in disk THEN "stat" ELSE "catch_access"]
  /\ UNCHANGED <<res, completed, filesToCleanup, disk, remote, created>>

\* (await fs.stat(filePath)).size inside the log call
TaskStat(f) ==
  /\ task[f] = "stat"
  /\ task' = [task EXCEPT ![f] = IF Path(reqNo, f) \in disk THEN "upload" ELSE "catch_access"]
  /\ UNCHANGED <<res, completed, filesToCleanup, disk, remote, created>>

\* await cloudinary.uploader.upload(filePath, {resource_type, timeout, ...})
TaskUploadOk(f) ==
  /\ task[f] = "upload"
  /\ Path(reqNo, f) \in disk
  /\ LET asset == Asset(reqNo, f, ResourceTypeOf(FileOf(req, f).ext))
     IN /\ remote' = remote \cup {asset}
        /\ created' = created \cup {asset}
        /\ res' = [res EXCEPT ![f] = Uploaded(asset)]
  /\ task' = [task EXCEPT ![f] = "ok_access"]
  /\ UNCHANGED <<completed, filesToCleanup, disk>>

TaskUploadFail(f) ==
  /\ task[f] = "upload"
  /\ task' = [task EXCEPT ![f] = Rejects("uploadToCloudinary", "catch_access")]
  /\ UNCHANGED <<res, completed, filesToCleanup, disk, remote, created>>

\* success path: try { await fs.access; await fs.unlink } catch (ENOENT ignored)
TaskOkAccess(f) ==
  /\ task[f] = "ok_access"
  /\ IF Path(reqNo, f) \in disk
       THEN /\ task' = [task EXCEPT ![f] = "ok_unlink"]
            /\ UNCHANGED <<completed, filesToCleanup>>
       ELSE Resolve(f)
  /\ UNCHANGED <<res, disk, remote, created>>

TaskOkUnlink(f) ==
  /\ task[f] = "ok_unlink"
  /\ disk' = disk \ {Path(reqNo, f)}
  /\ Resolve(f)
  /\ UNCHANGED <<res, remote, created>>

\* catch (error): the same cleanup, then throw error
TaskCatchAccess(f) ==
  /\ task[f] = "catch_access"
  /\ IF Path(reqNo, f) \in disk
       THEN /\ task' = [task EXCEPT ![f] = "catch_unlink"]
            /\ UNCHANGED <<completed, filesToCleanup>>
       ELSE Reject(f)
  /\ UNCHANGED <<res, disk, remote, created>>

TaskCatchUnlink(f) ==
  /\ task[f] = "catch_unlink"
  /\ disk' = disk \ {Path(reqNo, f)}
  /\ Reject(f)
  /\ UNCHANGED <<res, remote, created>>

uploadToCloudinary ==
  /\ \E f \in AllFileIds :
       \/ TaskAccess(f)
       \/ TaskStat(f)
       \/ TaskUploadOk(f)
       \/ TaskUploadFail(f)
       \/ TaskOkAccess(f)
       \/ TaskOkUnlink(f)
       \/ TaskCatchAccess(f)
       \/ TaskCatchUnlink(f)
  /\ UNCHANGED <<mediaVars, cleanVars, sideVars, histVars, idx, reqNo, req, pc, cleanupArg, data, existingPress, destroyLog,
                 pressDb, responses>>

\* A combinator that resolves as soon as one of the promises has.
AnyFulfilled(ids) == \E f \in ids : task[f] = "ok"

\* await Promise.all(...) resumes with the values once every promise of the
\* array has fulfilled.
AllFulfilled(ids) == \A f \in ids : task[f] = "ok"

\* The calls a handler starts run up to their first await.
Start(ids) == [f \in AllFileIds |-> IF f \in ids THEN "access" ELSE task[f]]

\* The attachment objects of the request, by file id.
AttachmentValues == [f \in AllFileIds |->
                       IF f \in AttachmentIds(req)
                         THEN AttachmentOf(res[f], FileOf(req, f), f)
                         ELSE AttachmentOf(NoResult, NoFile, f)]

\* A registration that forgets the attachments.
RegisteredFeaturedOnly(r, n) ==
  IF r.feat # NoFile THEN <<Path(n, FEATURED)>> ELSE <<>>

\* filesToCleanup after the registration block of createPress / updatePress.
Registered(r, n) ==
  (IF r.feat # NoFile THEN <<Path(n, FEATURED)>> ELSE <<>>)
    \o [i \in 1..Len(r.atts) |-> Path(n, i)]

----------------------------------------------------------------------------
\* middleware/upload.js: a request the upload middleware rejects.  multer
\* calls next(err); handleUploadError is the next error middleware of every
\* press upload route.

MulterCodes == {"LIMIT_FILE_SIZE", "LIMIT_FILE_COUNT", "LIMIT_UNEXPECTED_FILE"}

\* The error fileFilter hands to its callback for a file, "none" when it
\* accepts the file.
FilterError(file) == IF fileFilter(file) THEN "none" ELSE "Unsupported file type"

\* Errors multer may pass on: its own limit errors, the fileFilter's error,
\* and errors of the storage engine.
UploadErrors ==
  (MulterCodes \cup { FilterError(f) : f \in Candidates } \cup {"ENOSPC"}) \ {"none"}

\* The rejections for file type, file size and file count.
Rejections == UploadErrors \ {"ENOSPC"}

\* handleUploadError without its 'Unsupported file type' branch.
MulterErrorStatus(code) == IF code \in MulterCodes THEN 400 ELSE 500

\* handleUploadError: 400 for a MulterError and for the fileFilter's error;
\* anything else goes to next(error), the router's error handler, 500.
handleUploadErrorStatus(code) ==
  IF code \in MulterCodes THEN 400
  ELSE IF code = "Unsupported file type" THEN 400
  ELSE 500

\* The files multer had stored when the error occurred are on disk and in
\* req.files; the file that caused the error is not stored.
ArriveRejected ==
  /\ Quiescent
  /\ reqNo < MaxRequests
  /\ \E op \in UploadOps \cup {"uploadMediaRoute"}, code \in UploadErrors,
        feat \in Accepted \cup {NoFile}, atts \in SeqsUpTo(MaxFiles) :
       /\ op = "uploadMediaRoute" => feat = NoFile
       /\ Fresh([op |-> op, chain |-> "router", valid |-> TRUE, feat |-> feat,
                 atts |-> atts, id |-> 1, att |-> 0, uploadError |-> code])
  /\ pc' = "multer_abort"
  /\ UNCHANGED <<remote, pressDb, mediaDb, cleanVars, sideVars>>

\* multer removes files it had stored before it calls next(err); which of
\* them are gone by then is left open.
MulterAbort ==
  /\ pc = "multer_abort"
  /\ \E gone \in SUBSET StagedPaths(reqNo, req) : disk' = disk \ gone
  /\ pc' = "handleUploadError"
  /\ UNCHANGED <<mediaVars, cleanVars, sideVars, histVars, idx, reqNo, req, task, res, completed,
                 filesToCleanup, cleanupArg, data, existingPress, remote, created,
                 destroyLog, pressDb, responses>>

\* handleUploadError(error, req, res, next): cleanupTempFiles on every entry of
\* req.files (existsSync, unlinkSync), then the answer.
handleUploadError ==
  /\ pc = "handleUploadError"
  /\ disk' = disk \ StagedPaths(reqNo, req)
  /\ Respond(handleUploadErrorStatus(req.uploadError), <<>>)
  /\ pc' = "end"
  /\ UNCHANGED <<mediaVars, cleanVars, sideVars, histVars, idx, reqNo, req, task, res, completed,
                 filesToCleanup, cleanupArg, data, existingPress, remote, created,
                 destroyLog, pressDb>>

----------------------------------------------------------------------------
\* createPress

\* validationResult, registration, pressData, then the first await.
CreateStart ==
  /\ pc = "createPress"
  /\ IF ~req.valid
       THEN /\ Respond(400, <<>>)
            /\ Finally(filesToCleanup)
            /\ UNCHANGED <<filesToCleanup, task>>
       ELSE /\ filesToCleanup' = Registered(req, reqNo)
            /\ UNCHANGED <<responses, cleanupArg, finalRuns>>
            /\ IF req.feat # NoFile
                 THEN pc' = "create_await_featured" /\ task' = Start({FEATURED})
                 ELSE IF req.atts # <<>>
                   THEN pc' = "create_await_all" /\ task' = Start(AttachmentIds(req))
                   ELSE pc' = "create_persist" /\ UNCHANGED task
  /\ UNCHANGED <<mediaVars, cleanVars, sideVars, unlinkCalls, idx, reqNo, req, res, completed, data, existingPress, disk, remote,
                 created, destroyLog, pressDb>>

\* pressData.featuredImage = await uploadToCloudinary(...) resolved
CreateFeaturedDone ==
  /\ pc = "create_await_featured"
  /\ task[FEATURED] = "ok"
  /\ data' = [data EXCEPT !.featuredImage = res[FEATURED]]
  /\ filesToCleanup' = Filter(filesToCleanup, Path(reqNo, FEATURED))
  /\ IF req.atts # <<>>
       THEN pc' = "create_await_all" /\ task' = Start(AttachmentIds(req))
       ELSE pc' = "create_persist" /\ UNCHANGED task
  /\ UNCHANGED <<mediaVars, cleanVars, sideVars, histVars, idx, reqNo, req, res, completed, cleanupArg, existingPress, disk,
                 remote, created, destroyLog, pressDb, responses>>

\* catch (error): res.status(400), then finally
CreateCatch ==
  /\ \/ pc = "create_await_featured" /\ task[FEATURED] = "failed"
     \/ pc = "create_await_all" /\ \E f \in AttachmentIds(req) : task[f] = "failed"
  /\ Respond(400, <<>>)
  /\ Finally(filesToCleanup)
  /\ UNCHANGED <<mediaVars, cleanVars, sideVars, unlinkCalls, idx, reqNo, req, task, res, completed, filesToCleanup, data,
                 existingPress, disk, remote, created, destroyLog, pressDb>>

\* pressData.attachments = await Promise.all(...) resolved
CreateAllDone ==
  /\ pc = "create_await_all"
  /\ AllFulfilled(AttachmentIds(req))
  /\ data' = [data EXCEPT !.attachments =
                PromiseAll(Len(req.atts), AttachmentValues, completed),
              !.hasAttachments = TRUE]
  /\ pc' = "create_persist"
  /\ UNCHANGED <<mediaVars, cleanVars, sideVars, histVars, idx, reqNo, req, task, res, completed, filesToCleanup, cleanupArg,
                 existingPress, disk, remote, created, destroyLog, pressDb, responses>>

\* The document Press.create stores for pressData.
NewPress(d) ==
  [exists |-> TRUE,
   featuredImage |-> IF d.featuredImage = NoResult THEN NoImage ELSE CastImage(d.featuredImage),
   attachments |-> CastAttachments(d.attachments)]

\* await Press.create(pressData): 201, or the catch block's 400; then finally
CreatePersist ==
  /\ pc = "create_persist"
  /\ \/ /\ pressDb' = [pressDb EXCEPT ![req.id] = NewPress(data)]
        /\ Respond(201, <<NewPress(data)>>)
     \/ /\ UNCHANGED pressDb
        /\ Respond(400, <<>>)
  /\ Finally(filesToCleanup)
  /\ UNCHANGED <<mediaVars, cleanVars, sideVars, unlinkCalls, idx, reqNo, req, task, res, completed, filesToCleanup, data,
                 existingPress, disk, remote, created, destroyLog>>

----------------------------------------------------------------------------
\* routes/press.js

\* ...validatePress ends with handleValidationErrors: next(new AppError(.., 400))
\* goes to the router's error handler, which answers 500.
ValidatePress ==
  /\ pc = "validatePress"
  /\ IF req.valid
       THEN pc' = req.op /\ UNCHANGED responses
       ELSE pc' = "end" /\ Respond(500, <<>>)
  /\ UNCHANGED <<mediaVars, cleanVars, sideVars, histVars, idx, reqNo, req, task, res, completed, filesToCleanup, cleanupArg,
                 data, existingPress, disk, remote, created, destroyLog, pressDb>>

\* POST /upload-media: the press controller exports no uploadMedia, the route
\* throws 'uploadMedia controller missing' and its catch answers 500.
UploadMediaRoute ==
  /\ pc = "uploadMediaRoute"
  /\ pc' = "end"
  /\ Respond(500, <<>>)
  /\ UNCHANGED <<mediaVars, cleanVars, sideVars, histVars, idx, reqNo, req, task, res, completed, filesToCleanup, cleanupArg,
                 data, existingPress, disk, remote, created, destroyLog, pressDb>>

----------------------------------------------------------------------------
\* updatePress

UpdateStart ==
  /\ pc = "updatePress"
  /\ IF ~req.valid
       THEN /\ Respond(400, <<>>)
            /\ Finally(filesToCleanup)
            /\ UNCHANGED filesToCleanup
       ELSE /\ filesToCleanup' = Registered(req, reqNo)
            /\ pc' = "update_find"
            /\ UNCHANGED <<responses, cleanupArg, finalRuns>>
  /\ UNCHANGED <<mediaVars, cleanVars, sideVars, unlinkCalls, idx, reqNo, req, task, res, completed, data, existingPress, disk,
                 remote, created, destroyLog, pressDb>>

\* const existingPress = await Press.findById(id)
UpdateFind ==
  /\ pc = "update_find"
  /\ \/ \* the query rejects: outer catch, 500
        /\ Respond(500, <<>>)
        /\ Finally(filesToCleanup)
        /\ UNCHANGED <<existingPress, task>>
     \/ /\ ~pressDb[req.id].exists
        /\ Respond(404, <<>>)
        /\ Finally(filesToCleanup)
        /\ UNCHANGED <<existingPress, task>>
     \/ /\ pressDb[req.id].exists
        /\ existingPress' = pressDb[req.id]
        /\ UNCHANGED <<responses, cleanupArg, finalRuns>>
        /\ IF req.feat # NoFile
             THEN IF pressDb[req.id].featuredImage.publicId # NoId
                    THEN pc' = "update_delete_old" /\ UNCHANGED task
                    ELSE pc' = "update_await_featured" /\ task' = Start({FEATURED})
             ELSE IF req.atts # <<>>
               THEN pc' = "update_await_all" /\ task' = Start(AttachmentIds(req))
               ELSE pc' = "update_persist" /\ UNCHANGED task
  /\ UNCHANGED <<mediaVars, cleanVars, sideVars, unlinkCalls, idx, reqNo, req, res, completed, filesToCleanup, data, disk,
                 remote, created, destroyLog, pressDb>>

\* await deleteFromCloudinary(existingPress.featuredImage.publicId).catch(log)
UpdateDeleteOld ==
  /\ pc = "update_delete_old"
  /\ destroyLog' = destroyLog \cup
       { [publicId |-> existingPress.featuredImage.publicId, kind |-> DefaultKind] }
  /\ \/ /\ remote' = Destroy(remote, existingPress.featuredImage.publicId, DefaultKind)
        /\ pc' = "update_await_featured"
     \/ /\ UNCHANGED remote
        /\ pc' = Rejects("destroy", "update_await_featured")
  /\ task' = IF pc' = "update_await_featured" THEN Start({FEATURED}) ELSE task
  /\ UNCHANGED <<mediaVars, cleanVars, sideVars, histVars, idx, reqNo, req, res, completed, filesToCleanup, cleanupArg, data,
                 existingPress, disk, created, pressDb, responses>>

UpdateFeaturedDone ==
  /\ pc = "update_await_featured"
  /\ task[FEATURED] = "ok"
  /\ data' = [data EXCEPT !.featuredImage = res[FEATURED]]
  /\ filesToCleanup' = Filter(filesToCleanup, Path(reqNo, FEATURED))
  /\ IF req.atts # <<>>
       THEN pc' = "update_await_all" /\ task' = Start(AttachmentIds(req))
       ELSE pc' = "update_persist" /\ UNCHANGED task
  /\ UNCHANGED <<mediaVars, cleanVars, sideVars, histVars, idx, reqNo, req, res, completed, cleanupArg, existingPress, disk,
                 remote, created, destroyLog, pressDb, responses>>

\* catch (uploadError) of the featured image block: return 400, then finally
UpdateFeaturedFailed ==
  /\ pc = "update_await_featured"
  /\ task[FEATURED] = "failed"
  /\ Respond(400, <<>>)
  /\ Finally(filesToCleanup)
  /\ UNCHANGED <<mediaVars, cleanVars, sideVars, unlinkCalls, idx, reqNo, req, task, res, completed, filesToCleanup, data,
                 existingPress, disk, remote, created, destroyLog, pressDb>>

UpdateAllDone ==
  /\ pc = "update_await_all"
  /\ AllFulfilled(AttachmentIds(req))
  /\ data' = [data EXCEPT !.attachments =
                PromiseAll(Len(req.atts), AttachmentValues, completed),
              !.hasAttachments = TRUE]
  /\ pc' = "update_persist"
  /\ UNCHANGED <<mediaVars, cleanVars, sideVars, histVars, idx, reqNo, req, task, res, completed, filesToCleanup, cleanupArg,
                 existingPress, disk, remote, created, destroyLog, pressDb, responses>>

\* catch (uploadError) of the attachments block: return 400, then finally
UpdateAllFailed ==
  /\ pc = "update_await_all"
  /\ \E f \in AttachmentIds(req) : task[f] = "failed"
  /\ Respond(400, <<>>)
  /\ Finally(filesToCleanup)
  /\ UNCHANGED <<mediaVars, cleanVars, sideVars, unlinkCalls, idx, reqNo, req, task, res, completed, filesToCleanup, data,
                 existingPress, disk, remote, created, destroyLog, pressDb>>

\* The document after findByIdAndUpdate(id, updateData): featuredImage and
\* attachments are replaced when updateData carries them.
UpdatedPress(cur, existing, d) ==
  [exists |-> TRUE,
   featuredImage |-> IF d.featuredImage = NoResult THEN cur.featuredImage
                     ELSE CastImage(d.featuredImage),
   attachments |-> IF d.hasAttachments
                     THEN existing.attachments \o CastAttachments(d.attachments)
                     ELSE cur.attachments]

\* await Press.findByIdAndUpdate(...): 200, or the outer catch's 500; then finally
UpdatePersist ==
  /\ pc = "update_persist"
  /\ \/ /\ pressDb' = [pressDb EXCEPT
                         ![req.id] = UpdatedPress(pressDb[req.id], existingPress, data)]
        /\ Respond(200, <<UpdatedPress(pressDb[req.id], existingPress, data)>>)
     \/ /\ UNCHANGED pressDb
        /\ Respond(500, <<>>)
  /\ Finally(filesToCleanup)
  /\ UNCHANGED <<mediaVars, cleanVars, sideVars, unlinkCalls, idx, reqNo, req, task, res, completed, filesToCleanup, data,
                 existingPress, disk, remote, created, destroyLog>>

----------------------------------------------------------------------------
\* deletePress

\* const pressRelease = await Press.findById(req.params.id)
DeleteFind ==
  /\ pc = "deletePress"
  /\ \/ /\ Respond(500, <<>>)
        /\ pc' = "end"
        /\ UNCHANGED existingPress
     \/ /\ ~pressDb[req.id].exists
        /\ Respond(404, <<>>)
        /\ pc' = "end"
        /\ UNCHANGED existingPress
     \/ /\ pressDb[req.id].exists
        /\ existingPress' = pressDb[req.id]
        /\ UNCHANGED responses
        /\ pc' = IF pressDb[req.id].featuredImage.publicId # NoId
                   THEN "delete_featured"
                   ELSE IF pressDb[req.id].attachments # <<>>
                     THEN "delete_attachments" ELSE "delete_remove"
  /\ UNCHANGED <<mediaVars, cleanVars, sideVars, histVars, idx, reqNo, req, task, res, completed, filesToCleanup, cleanupArg,
                 data, disk, remote, created, destroyLog, pressDb>>

\* try { await cloudinary.uploader.destroy(featuredImage.publicId) } catch { log }
DeleteFeatured ==
  /\ pc = "delete_featured"
  /\ destroyLog' = destroyLog \cup
       { [publicId |-> existingPress.featuredImage.publicId, kind |-> DefaultKind] }
  /\ LET continuation == IF existingPress.attachments # <<>> THEN "delete_attachments"
                          ELSE "delete_remove"
     IN \/ /\ remote' = Destroy(remote, existingPress.featuredImage.publicId, DefaultKind)
           /\ pc' = continuation
        \/ /\ UNCHANGED remote
           /\ pc' = Rejects("destroy", continuation)
  /\ UNCHANGED <<mediaVars, cleanVars, sideVars, histVars, idx, reqNo, req, task, res, completed, filesToCleanup, cleanupArg,
                 data, existingPress, disk, created, pressDb, responses>>

\* for (const attachment of attachments) try { await destroy(publicId,
\*   {resource_type: attachment.resourceType || 'image'}) } catch { log }
DeleteAttachments ==
  /\ pc = "delete_attachments"
  /\ LET att == existingPress.attachments[idx]
     IN /\ destroyLog' = destroyLog \cup
             { [publicId |-> att.publicId, kind |-> StoredResourceType(att)] }
        /\ LET continuation == IF idx < Len(existingPress.attachments)
                                  THEN "delete_attachments" ELSE "delete_remove"
           IN \/ /\ remote' = Destroy(remote, att.publicId, StoredResourceType(att))
                 /\ pc' = continuation
              \/ /\ UNCHANGED remote
                 /\ pc' = Rejects("destroy", continuation)
  /\ idx' = IF pc' = "delete_attachments" THEN idx + 1 ELSE idx
  /\ UNCHANGED <<mediaVars, cleanVars, sideVars, histVars, reqNo, req, task, res, completed, filesToCleanup, cleanupArg,
                 data, existingPress, disk, created, pressDb, responses>>

\* await Press.findByIdAndDelete(id): 200, or the catch block's 500
DeleteRemove ==
  /\ pc = "delete_remove"
  /\ \/ /\ pressDb' = [pressDb EXCEPT ![req.id] = NoRecord]
        /\ Respond(200, <<>>)
     \/ /\ UNCHANGED pressDb
        /\ Respond(500, <<>>)
  /\ pc' = "end"
  /\ UNCHANGED <<mediaVars, cleanVars, sideVars, histVars, idx, reqNo, req, task, res, completed, filesToCleanup, cleanupArg,
                 data, existingPress, disk, remote, created, destroyLog>>

----------------------------------------------------------------------------
\* deleteAttachment

\* splice(attachmentIndex, 1)
Splice(s, i) == [j \in 1..(Len(s) - 1) |-> IF j < i THEN s[j] ELSE s[j + 1]]

\* findById, then findIndex of the attachment
DeleteAttachmentFind ==
  /\ pc = "deleteAttachment"
  /\ \/ /\ Respond(500, <<>>)
        /\ pc' = "end"
        /\ UNCHANGED existingPress
     \/ /\ \/ ~pressDb[req.id].exists
           \/ req.att > Len(pressDb[req.id].attachments)
        /\ Respond(404, <<>>)
        /\ pc' = "end"
        /\ UNCHANGED existingPress
     \/ /\ pressDb[req.id].exists
        /\ req.att <= Len(pressDb[req.id].attachments)
        /\ existingPress' = pressDb[req.id]
        /\ UNCHANGED responses
        /\ pc' = "attachment_destroy"
  /\ UNCHANGED <<mediaVars, cleanVars, sideVars, histVars, idx, reqNo, req, task, res, completed, filesToCleanup, cleanupArg,
                 data, disk, remote, created, destroyLog, pressDb>>

\* try { await destroy(attachment.publicId, {resource_type:
\*   attachment.resourceType || 'image'}) } catch { log }
DeleteAttachmentDestroy ==
  /\ pc = "attachment_destroy"
  /\ LET att == existingPress.attachments[req.att]
     IN /\ destroyLog' = destroyLog \cup
             { [publicId |-> att.publicId, kind |-> StoredResourceType(att)] }
        /\ \/ /\ remote' = Destroy(remote, att.publicId, StoredResourceType(att))
              /\ pc' = "attachment_save"
           \/ /\ UNCHANGED remote
              /\ pc' = Rejects("destroy", "attachment_save")
  /\ UNCHANGED <<mediaVars, cleanVars, sideVars, histVars, idx, reqNo, req, task, res, completed, filesToCleanup, cleanupArg,
                 data, existingPress, disk, created, pressDb, responses>>

\* pressRelease.attachments.splice(index, 1); await pressRelease.save()
DeleteAttachmentSave ==
  /\ pc = "attachment_save"
  /\ \/ /\ pressDb' = [pressDb EXCEPT ![req.id].attachments =
                         Splice(existingPress.attachments, req.att)]
        /\ Respond(200, <<>>)
     \/ /\ UNCHANGED pressDb
        /\ Respond(500, <<>>)
  /\ pc' = "end"
  /\ UNCHANGED <<mediaVars, cleanVars, sideVars, histVars, idx, reqNo, req, task, res, completed, filesToCleanup, cleanupArg,
                 data, existingPress, disk, remote, created, destroyLog>>

----------------------------------------------------------------------------
\* Media controller: uploadMedia.  The handler is given req.files with their
\* staged paths; it processes them one after the other.

ArriveMedia ==
  /\ Quiescent
  /\ reqNo < MaxRequests
  /\ \E valid \in BOOLEAN, files \in SeqsUpTo(MaxFiles) :
       Fresh([op |-> "uploadMedia", chain |-> "controller", valid |-> valid,
              feat |-> NoFile, atts |-> files, id |-> 0, att |-> 0,
              uploadError |-> "none"])
  /\ pc' = "uploadMedia"
  /\ UNCHANGED <<remote, pressDb, mediaDb, cleanVars, sideVars>>

\* const mediaType = file.mimetype.startsWith('video/') ? 'video' : 'image'
MediaType(file) == IF file.mime = "video" THEN "video" ELSE "image"

\* new Media({...}): the paths of the document that mediaSchema declares among
\* those uploadMedia sets (type, url, publicId, filename); the schema has no
\* 'thumbnails' and no 'metadata' path.
MediaDoc(file, f, result) ==
  [type |-> MediaType(file), publicId |-> result.publicId, filename |-> f]

\* An empty-list answer without its return: execution goes on to populate.
MediaNextNoReturn(list) ==
  IF idx < Len(req.atts)
    THEN /\ idx' = idx + 1
         /\ pc' = "media_upload"
         /\ UNCHANGED responses
    ELSE /\ UNCHANGED idx
         /\ pc' = "media_populate"
         /\ IF list = <<>> THEN Respond(500, <<>>) ELSE UNCHANGED responses

\* End of one iteration of for (const file of req.files): the next file, or
\* the code after the loop up to its first await.
MediaNext(list) ==
  IF idx < Len(req.atts)
    THEN /\ idx' = idx + 1
         /\ pc' = "media_upload"
         /\ UNCHANGED responses
    ELSE /\ UNCHANGED idx
         /\ IF list = <<>>
              THEN pc' = "end" /\ Respond(500, <<>>)
              ELSE pc' = "media_populate" /\ UNCHANGED responses

\* validationResult(req); req.files empty
MediaStart ==
  /\ pc = "uploadMedia"
  /\ IF ~req.valid \/ req.atts = <<>>
       THEN pc' = "end" /\ Respond(400, <<>>)
       ELSE pc' = "media_upload" /\ UNCHANGED responses
  /\ UNCHANGED <<mediaVars, cleanVars, sideVars, histVars, idx, reqNo, req, task, res, completed,
                 filesToCleanup, cleanupArg, data, existingPress, disk, remote,
                 created, destroyLog, pressDb>>

\* const result = await cloudinary.uploader.upload(file.path, uploadOptions)
MediaUpload ==
  /\ pc = "media_upload"
  /\ \/ /\ Path(reqNo, idx) \in disk
        /\ LET asset == Asset(reqNo, idx, MediaType(req.atts[idx]))
           IN /\ remote' = remote \cup {asset}
              /\ created' = created \cup {asset}
              /\ res' = [res EXCEPT ![idx] = Uploaded(asset)]
        /\ pc' = IF MediaType(req.atts[idx]) = "video" THEN "media_thumbnail"
                 ELSE "media_save"
        /\ outcome' = [outcome EXCEPT ![idx] = "uploaded"]
     \/ /\ pc' = Rejects("upload", "media_catch")
        /\ outcome' = [outcome EXCEPT ![idx] = "upload_failed"]
        /\ UNCHANGED <<remote, created, res>>
  /\ UNCHANGED <<mediaDb, uploadedMedia, mediaItem, cleanVars, sideVars, histVars, idx, reqNo, req, task, completed,
                 filesToCleanup, cleanupArg, data, existingPress, disk,
                 destroyLog, pressDb, responses>>

\* The thumbnail asset derived from the uploaded video.
Thumbnail(id) == [publicId |-> ThumbId(id), resourceType |-> "image"]

\* A thumbnail error that is not caught where it is raised.
ThumbErrorPropagates == "media_catch"

\* catch (thumbError) { console.error(..) }: execution goes on with
\* new Media({...}).
AfterThumbError == "media_save"

\* try { await cloudinary.uploader.upload(result.secure_url, {public_id:
\*   `thumb_${result.public_id}`, resource_type: 'image'}) } catch { log }
MediaThumbnail ==
  /\ pc = "media_thumbnail"
  /\ \/ /\ remote' = remote \cup {Thumbnail(res[idx].publicId)}
        /\ created' = created \cup {Thumbnail(res[idx].publicId)}
        /\ pc' = "media_save"
     \/ /\ UNCHANGED <<remote, created>>
        /\ pc' = Rejects("thumbnail", AfterThumbError)
  /\ UNCHANGED <<mediaVars, cleanVars, sideVars, histVars, idx, reqNo, req, task, res, completed,
                 filesToCleanup, cleanupArg, data, existingPress, disk,
                 destroyLog, pressDb, responses>>

\* await mediaItem.save(); uploadedMedia.push(mediaItem)
MediaSave ==
  /\ pc = "media_save"
  /\ \/ LET doc == MediaDoc(req.atts[idx], idx, res[idx])
        IN /\ mediaDb' = mediaDb \cup {doc}
           /\ uploadedMedia' = Append(uploadedMedia, doc)
           /\ pc' = "media_unlink"
           /\ outcome' = [outcome EXCEPT ![idx] = "saved"]
     \/ /\ pc' = "media_catch"
        /\ outcome' = [outcome EXCEPT ![idx] = "save_failed"]
        /\ UNCHANGED <<mediaDb, uploadedMedia>>
  /\ UNCHANGED <<mediaItem, cleanVars, sideVars, histVars, idx, reqNo, req, task, res, completed,
                 filesToCleanup, cleanupArg, data, existingPress, disk, remote,
                 created, destroyLog, pressDb, responses>>

\* await fs.unlink(file.path) at the end of the try block: a missing file
\* throws into the per-file catch.
MediaUnlink ==
  /\ pc = "media_unlink"
  /\ IF Path(reqNo, idx) \in disk
       THEN /\ disk' = disk \ {Path(reqNo, idx)}
            /\ MediaNext(uploadedMedia)
       ELSE /\ pc' = "media_catch"
            /\ UNCHANGED <<disk, idx, responses>>
  /\ unlinkCalls' = [unlinkCalls EXCEPT ![idx] = @ + 1]
  /\ UNCHANGED <<mediaVars, cleanVars, sideVars, finalRuns, reqNo, req, task, res, completed,
                 filesToCleanup, cleanupArg, data, existingPress, remote,
                 created, destroyLog, pressDb>>

\* catch (uploadError) { try { await fs.unlink(file.path) } catch { log } }
MediaCatch ==
  /\ pc = "media_catch"
  /\ disk' = disk \ {Path(reqNo, idx)}
  /\ MediaNext(uploadedMedia)
  /\ unlinkCalls' = [unlinkCalls EXCEPT ![idx] = @ + 1]
  /\ UNCHANGED <<mediaVars, cleanVars, sideVars, finalRuns, reqNo, req, task, res, completed,
                 filesToCleanup, cleanupArg, data, existingPress, remote,
                 created, destroyLog, pressDb>>

\* await Media.populate(uploadedMedia, ...): 201, or the outer catch, which
\* unlinks every req.files path (errors logged) and answers 500.
MediaPopulate ==
  /\ pc = "media_populate"
  /\ \/ /\ Respond(201, uploadedMedia)
        /\ UNCHANGED <<disk, unlinkCalls>>
     \/ /\ disk' = disk \ StagedPaths(reqNo, req)
        /\ unlinkCalls' = [f \in AllFileIds |->
                             IF f \in AttachmentIds(req) THEN unlinkCalls[f] + 1
                             ELSE unlinkCalls[f]]
        /\ Respond(500, <<>>)
  /\ pc' = "end"
  /\ UNCHANGED <<mediaVars, cleanVars, sideVars, finalRuns, idx, reqNo, req, task, res, completed,
                 filesToCleanup, cleanupArg, data, existingPress, remote,
                 created, destroyLog, pressDb>>

----------------------------------------------------------------------------
\* Media controller: deleteMedia.

ArriveDeleteMedia ==
  /\ Quiescent
  /\ reqNo < MaxRequests
  /\ \E id \in 1..MaxRequests, f \in 1..MaxFiles :
       Fresh([op |-> "deleteMedia", chain |-> "controller", valid |-> TRUE,
              feat |-> NoFile, atts |-> <<>>, id |-> id, att |-> f,
              uploadError |-> "none"])
  /\ pc' = "deleteMedia"
  /\ UNCHANGED <<remote, pressDb, mediaDb, cleanVars, sideVars>>

\* const mediaItem = await Media.findById(req.params.id)
DeleteMediaFind ==
  /\ pc = "deleteMedia"
  /\ LET found == { m \in mediaDb : m.publicId = PublicId(req.id, req.att) }
     IN \/ /\ Respond(500, <<>>)
           /\ pc' = "end"
           /\ UNCHANGED mediaItem
        \/ /\ found = {}
           /\ Respond(404, <<>>)
           /\ pc' = "end"
           /\ UNCHANGED mediaItem
        \/ /\ \E m \in found : mediaItem' = m
           /\ pc' = "media_destroy"
           /\ UNCHANGED responses
  /\ UNCHANGED <<mediaDb, uploadedMedia, outcome, cleanVars, sideVars, histVars, idx, reqNo, req, task, res,
                 completed, filesToCleanup, cleanupArg, data, existingPress, disk,
                 remote, created, destroyLog, pressDb>>

\* try { await destroy(publicId, {resource_type: type === 'video' ? 'video' :
\*   'image'}); thumbnails loop } catch { log }.  mediaItem.thumbnails is not a
\* path of mediaSchema: the loop over it has nothing to visit.
DeleteMediaDestroy ==
  /\ pc = "media_destroy"
  /\ LET kind == IF mediaItem.type = "video" THEN "video" ELSE "image"
     IN /\ destroyLog' = destroyLog \cup {[publicId |-> mediaItem.publicId, kind |-> kind]}
        /\ \/ /\ remote' = Destroy(remote, mediaItem.publicId, kind)
              /\ pc' = "media_remove"
           \/ /\ UNCHANGED remote
              /\ pc' = Rejects("destroy", "media_remove")
  /\ UNCHANGED <<mediaVars, cleanVars, sideVars, histVars, idx, reqNo, req, task, res, completed,
                 filesToCleanup, cleanupArg, data, existingPress, disk, created,
                 pressDb, responses>>

\* await Media.findByIdAndDelete(req.params.id)
DeleteMediaRemove ==
  /\ pc = "media_remove"
  /\ \/ /\ mediaDb' = mediaDb \ {mediaItem}
        /\ Respond(200, <<>>)
     \/ /\ UNCHANGED mediaDb
        /\ Respond(500, <<>>)
  /\ pc' = "end"
  /\ UNCHANGED <<uploadedMedia, mediaItem, outcome, cleanVars, sideVars, histVars, idx, reqNo, req, task, res,
                 completed, filesToCleanup, cleanupArg, data, existingPress, disk,
                 remote, created, destroyLog, pressDb>>

----------------------------------------------------------------------------
Next ==
  \/ ArriveUpload
  \/ ArriveRejected
  \/ MulterAbort
  \/ handleUploadError
  \/ ArriveUploadMedia
  \/ ArriveDelete
  \/ ValidatePress
  \/ UploadMediaRoute
  \/ CreateStart
  \/ CreateFeaturedDone
  \/ CreateCatch
  \/ CreateAllDone
  \/ CreatePersist
  \/ UpdateStart
  \/ UpdateFind
  \/ UpdateDeleteOld
  \/ UpdateFeaturedDone
  \/ UpdateFeaturedFailed
  \/ UpdateAllDone
  \/ UpdateAllFailed
  \/ UpdatePersist
  \/ DeleteFind
  \/ DeleteFeatured
  \/ DeleteAttachments
  \/ DeleteRemove
  \/ DeleteAttachmentFind
  \/ DeleteAttachmentDestroy
  \/ DeleteAttachmentSave
  \/ ArriveMedia
  \/ MediaStart
  \/ MediaUpload
  \/ MediaThumbnail
  \/ MediaSave
  \/ MediaUnlink
  \/ MediaCatch
  \/ MediaPopulate
  \/ ArriveDeleteMedia
  \/ DeleteMediaFind
  \/ DeleteMediaDestroy
  \/ DeleteMediaRemove
  \/ uploadToCloudinary
  \/ SafeCleanupAccess
  \/ SafeCleanupUnlink

Spec == Init /\ [][Next]_vars

\* The steps of the request being served (a request arrives only when the
\* previous one has nothing pending).  Node's event loop runs every pending continuation, and each
\* remote, database and file-system call returns or rejects, so a handler
\* that can take a step eventually takes one.
Progress == ~Quiescent /\ Next

SpecLive == Init /\ [][Next]_vars /\ WF_vars(Progress)

----------------------------------------------------------------------------
\* The three routines that release a staged file, started at any time on any
\* staged path and interleaved at their awaits.

CleanerKinds == {"safeFileCleanup", "uploadToCloudinary", "cleanupTempFiles"}
CleanupPaths == { Path(1, f) : f \in 1..MaxFiles }

\* A catch block that rethrows what the release raised.
CatchRethrows(kind, code) == "threw"

\* What the catch around access / unlink does with the error: safeFileCleanup
\* logs it, uploadToCloudinary ignores ENOENT and warns for the rest,
\* cleanupTempFiles logs it.  None rethrows.
CatchOutcome(kind, code) == "returned"

\* An error of the release of cleaner i reaches its catch block.
Caught(i, code) ==
  cleaner' = [cleaner EXCEPT ![i].pc = CatchOutcome(cleaner[i].kind, code),
                             ![i].hit = code,
                             ![i].at = cleaner[i].pc]

NotCleaner == <<reqNo, req, pc, task, res, completed, filesToCleanup, cleanupArg,
                data, existingPress, remote, created, destroyLog, pressDb, idx,
                responses, mediaVars, sideVars, histVars>>

\* safeFileCleanup([path]) or the cleanup of uploadToCloudinary begins.
CleanerBegin ==
  /\ Len(cleaner) < MaxCleaners
  /\ \E kind \in CleanerKinds \ {"cleanupTempFiles"}, path \in CleanupPaths :
       cleaner' = Append(cleaner, [kind |-> kind, path |-> path,
                                   pc |-> "access", hit |-> "none",
                                   at |-> "none"])
  /\ UNCHANGED <<disk, NotCleaner>>

\* await fs.access(path)
CleanerAccess ==
  /\ \E i \in 1..Len(cleaner) :
       /\ cleaner[i].pc = "access"
       /\ IF cleaner[i].path \in disk
            THEN cleaner' = [cleaner EXCEPT ![i].pc = "unlink"]
            ELSE Caught(i, "ENOENT")
  /\ UNCHANGED <<disk, NotCleaner>>

\* await fs.unlink(path): the file may have been removed since the access.
CleanerUnlink ==
  /\ \E i \in 1..Len(cleaner) :
       /\ cleaner[i].pc = "unlink"
       /\ IF cleaner[i].path \in disk
            THEN /\ disk' = disk \ {cleaner[i].path}
                 /\ cleaner' = [cleaner EXCEPT ![i].pc = "returned",
                                               ![i].hit = "unlinked"]
            ELSE /\ Caught(i, "ENOENT")
                 /\ UNCHANGED disk
  /\ UNCHANGED NotCleaner

\* cleanupTempFiles([path]): fs.existsSync and fs.unlinkSync in one turn.
cleanupTempFiles ==
  /\ Len(cleaner) < MaxCleaners
  /\ \E path \in CleanupPaths :
       IF path \in disk
         THEN /\ disk' = disk \ {path}
              /\ cleaner' = Append(cleaner, [kind |-> "cleanupTempFiles", path |-> path,
                                             pc |-> "returned", hit |-> "unlinked",
                                             at |-> "none"])
         ELSE /\ UNCHANGED disk
              /\ cleaner' = Append(cleaner, [kind |-> "cleanupTempFiles", path |-> path,
                                             pc |-> "returned", hit |-> "missing",
                                             at |-> "none"])
  /\ UNCHANGED NotCleaner

\* Some staged files are on disk, no request is in progress.
InitCleanup ==
  /\ reqNo = 0
  /\ req = NoRequest
  /\ pc = "end"
  /\ task = [f \in AllFileIds |-> "idle"]
  /\ res = [f \in AllFileIds |-> NoResult]
  /\ completed = <<>>
  /\ filesToCleanup = <<>>
  /\ cleanupArg = <<>>
  /\ data = NoData
  /\ existingPress = NoRecord
  /\ disk \in SUBSET CleanupPaths
  /\ remote = {}
  /\ created = {}
  /\ destroyLog = {}
  /\ pressDb = [i \in 1..MaxRequests |-> NoRecord]
  /\ idx = 1
  /\ responses = <<>>
  /\ mediaDb = {}
  /\ uploadedMedia = <<>>
  /\ mediaItem = NoMedia
  /\ outcome = [f \in AllFileIds |-> "none"]
  /\ cleaner = <<>>
  /\ gateway = <<>>
  /\ updater = [p \in 1..MaxUpdaters |-> NoUpdater]
  /\ finalRuns = 0
  /\ unlinkCalls = [f \in AllFileIds |-> 0]
  /\ reply = NoReply
  /\ classify = NoClassify
  /\ workflow = [i \in 1..MaxRequests |-> NoWorkflow]

NextCleanup ==
  \/ CleanerBegin
  \/ CleanerAccess
  \/ CleanerUnlink
  \/ cleanupTempFiles

SpecCleanup == InitCleanup /\ [][NextCleanup]_vars

----------------------------------------------------------------------------
\* The remote delete helpers, called at any time on any identifier:
\* deleteFromCloudinary (config/cloudinary.js) and FileUploadService.deleteFile.

DeleteFns == {"deleteFromCloudinary", "deleteFile"}
GatewayIds == { PublicId(1, f) : f \in 1..MaxFiles }

\* The stores the helpers may meet: at most one asset per identifier.
GatewayStores ==
  { st \in SUBSET { [publicId |-> id, resourceType |-> k] :
                      id \in GatewayIds, k \in {"image", "video"} } :
      \A a, b \in st : a.publicId = b.publicId => a = b }

\* What destroy answers: 'ok' when it removed the asset, 'not found' otherwise.
DestroyResult(store, publicId, kind) ==
  IF Destroy(store, publicId, kind) # store THEN "ok" ELSE "not found"

\* A helper that treats every answer but 'ok' as an error.
ThrowUnlessOk(fn, result) == IF result = "ok" THEN "returned" ELSE "threw"

\* try { const result = await cloudinary.uploader.destroy(publicId);
\*       return result }: the answer is returned as it is, not inspected.
ReturnResult(fn, result) == "returned"

\* catch (error): deleteFromCloudinary logs and rethrows, deleteFile throws
\* new Error(`File deletion failed: ..`).
DestroyRejected(fn) == "threw"

NotGateway == <<reqNo, req, pc, task, res, completed, filesToCleanup, cleanupArg,
                data, existingPress, disk, created, destroyLog, pressDb, idx,
                responses, mediaVars, cleanVars, histVars, updater, reply, classify, workflow>>

\* deleteFromCloudinary(publicId) / FileUploadService.deleteFile(publicId)
\* is called and reaches its await.
GatewayCall ==
  /\ Len(gateway) < MaxCalls
  /\ \E fn \in DeleteFns, id \in GatewayIds :
       gateway' = Append(gateway, [fn |-> fn, publicId |-> id, pc |-> "destroy",
                                   result |-> "none", changed |-> FALSE])
  /\ UNCHANGED <<remote, NotGateway>>

\* cloudinary.uploader.destroy(publicId) answers.
GatewayAnswered ==
  /\ \E i \in 1..Len(gateway) :
       /\ gateway[i].pc = "destroy"
       /\ LET result == DestroyResult(remote, gateway[i].publicId, DefaultKind)
          IN /\ remote' = Destroy(remote, gateway[i].publicId, DefaultKind)
             /\ gateway' = [gateway EXCEPT
                              ![i].pc = ReturnResult(gateway[i].fn, result),
                              ![i].result = result,
                              ![i].changed = (remote' # remote)]
  /\ UNCHANGED NotGateway

\* cloudinary.uploader.destroy(publicId) rejects (network error, timeout).
GatewayRejected ==
  /\ \E i \in 1..Len(gateway) :
       /\ gateway[i].pc = "destroy"
       /\ gateway' = [gateway EXCEPT ![i].pc = DestroyRejected(gateway[i].fn),
                                     ![i].result = "rejected"]
  /\ UNCHANGED <<remote, NotGateway>>

InitGateway ==
  /\ reqNo = 0
  /\ req = NoRequest
  /\ pc = "end"
  /\ task = [f \in AllFileIds |-> "idle"]
  /\ res = [f \in AllFileIds |-> NoResult]
  /\ completed = <<>>
  /\ filesToCleanup = <<>>
  /\ cleanupArg = <<>>
  /\ data = NoData
  /\ existingPress = NoRecord
  /\ disk = {}
  /\ remote \in GatewayStores
  /\ created = {}
  /\ destroyLog = {}
  /\ pressDb = [i \in 1..MaxRequests |-> NoRecord]
  /\ idx = 1
  /\ responses = <<>>
  /\ mediaDb = {}
  /\ uploadedMedia = <<>>
  /\ mediaItem = NoMedia
  /\ outcome = [f \in AllFileIds |-> "none"]
  /\ cleaner = <<>>
  /\ gateway = <<>>
  /\ updater = [p \in 1..MaxUpdaters |-> NoUpdater]
  /\ finalRuns = 0
  /\ unlinkCalls = [f \in AllFileIds |-> 0]
  /\ reply = NoReply
  /\ classify = NoClassify
  /\ workflow = [i \in 1..MaxRequests |-> NoWorkflow]

NextGateway ==
  \/ GatewayCall
  \/ GatewayAnswered
  \/ GatewayRejected

SpecGateway == InitGateway /\ [][NextGateway]_vars

----------------------------------------------------------------------------
\* Several updatePress requests adding attachments to the same press release
\* at the same time.  Each request p is the handler's sequence of awaits:
\* findById, Promise.all of the uploads, findByIdAndUpdate.

SHARED == 1
Updaters == 1..MaxUpdaters

ImageFile == [mime |-> "image", ext |-> "jpg"]

\* The release as it is stored before the requests arrive: one attachment.
StoredPress ==
  [exists |-> TRUE, featuredImage |-> NoImage,
   attachments |-> CastAttachments(
                     <<AttachmentOf(Uploaded(Asset(0, 1, "image")), ImageFile, 1)>>)]

\* newAttachments of request p.
NewAttachments(p, n) ==
  [i \in 1..n |-> AttachmentOf(Uploaded(Asset(p, i, "image")), ImageFile, i)]

NotUpdater == <<reqNo, req, pc, task, res, completed, filesToCleanup, cleanupArg,
                data, existingPress, disk, created, destroyLog, idx, responses,
                mediaVars, cleanVars, histVars, gateway, reply, classify, workflow>>

\* The request arrives with n attachments; validation and registration run
\* up to await Press.findById(id).
UpdaterStart(p) ==
  /\ updater[p].pc = "idle"
  /\ \E n \in 1..MaxFiles :
       updater' = [updater EXCEPT ![p].pc = "find", ![p].n = n]
  /\ UNCHANGED <<pressDb, remote, NotUpdater>>

\* const existingPress = await Press.findById(id)
UpdaterFind(p) ==
  /\ updater[p].pc = "find"
  /\ \/ updater' = [updater EXCEPT ![p].pc = "upload", ![p].existing = pressDb[SHARED]]
     \/ updater' = [updater EXCEPT ![p].pc = "done", ![p].status = 500]
  /\ UNCHANGED <<pressDb, remote, NotUpdater>>

\* const newAttachments = await Promise.all(...): resolved, or the catch's 400
UpdaterUploaded(p) ==
  /\ updater[p].pc = "upload"
  /\ \/ /\ updater' = [updater EXCEPT ![p].pc = "update",
                                      ![p].new = NewAttachments(p, updater[p].n)]
        /\ remote' = remote \cup { Asset(p, i, "image") : i \in 1..updater[p].n }
     \/ /\ updater' = [updater EXCEPT ![p].pc = "done", ![p].status = 400]
        /\ UNCHANGED remote
  /\ UNCHANGED <<pressDb, NotUpdater>>

\* updateData.attachments = [...existingPress.attachments, ...newAttachments];
\* await Press.findByIdAndUpdate(id, updateData): 200, or the outer catch's 500
UpdaterPersist(p) ==
  /\ updater[p].pc = "update"
  /\ \/ /\ pressDb' = [pressDb EXCEPT ![SHARED] =
                         UpdatedPress(pressDb[SHARED], updater[p].existing,
                                      [featuredImage |-> NoResult,
                                       attachments |-> updater[p].new,
                                       hasAttachments |-> TRUE])]
        /\ updater' = [updater EXCEPT ![p].pc = "done", ![p].status = 200]
     \/ /\ UNCHANGED pressDb
        /\ updater' = [updater EXCEPT ![p].pc = "done", ![p].status = 500]
  /\ UNCHANGED <<remote, NotUpdater>>

InitUpdaters ==
  /\ reqNo = 0
  /\ req = NoRequest
  /\ pc = "end"
  /\ task = [f \in AllFileIds |-> "idle"]
  /\ res = [f \in AllFileIds |-> NoResult]
  /\ completed = <<>>
  /\ filesToCleanup = <<>>
  /\ cleanupArg = <<>>
  /\ data = NoData
  /\ existingPress = NoRecord
  /\ disk = {}
  /\ remote = {Asset(0, 1, "image")}
  /\ created = {}
  /\ destroyLog = {}
  /\ pressDb = [i \in 1..MaxRequests |-> IF i = SHARED THEN StoredPress ELSE NoRecord]
  /\ idx = 1
  /\ responses = <<>>
  /\ mediaDb = {}
  /\ uploadedMedia = <<>>
  /\ mediaItem = NoMedia
  /\ outcome = [f \in AllFileIds |-> "none"]
  /\ cleaner = <<>>
  /\ gateway = <<>>
  /\ updater = [p \in Updaters |-> NoUpdater]
  /\ finalRuns = 0
  /\ unlinkCalls = [f \in AllFileIds |-> 0]
  /\ reply = NoReply
  /\ classify = NoClassify
  /\ workflow = [i \in 1..MaxRequests |-> NoWorkflow]

NextUpdaters ==
  \E p \in Updaters :
    \/ UpdaterStart(p)
    \/ UpdaterFind(p)
    \/ UpdaterUploaded(p)
    \/ UpdaterPersist(p)

SpecUpdaters == InitUpdaters /\ [][NextUpdaters]_vars

----------------------------------------------------------------------------
\* Error responses.  What each catch block and error middleware of the upload,
\* update and delete endpoints puts into the response body, given the error it
\* caught and process.env.NODE_ENV.  A body is modelled by what it discloses:
\* its fixed texts, the staged-file paths that occur in it, and whether it
\* carries err.stack.

Envs == {"development", "production", "unset"}

\* Errors the handlers catch.
\*   missing_staged_file: uploadToCloudinary's
\*       throw new Error(`File not found at path: ${filePath}`)
\*   remote_upload_error: the rejection of cloudinary.uploader.upload
\*   persistence_error:   a mongoose ValidationError of create / update / save
\*   upload_rejected:     the MulterError or fileFilter error passed to next()
ErrorOf(cause, path) ==
  [cause |-> cause,
   paths |-> IF cause = "missing_staged_file" THEN {path} ELSE {},
   name  |-> IF cause = "persistence_error" THEN "ValidationError" ELSE "Error"]

ErrorPaths == { Path(n, f) : n \in 1..MaxRequests, f \in AllFileIds }

Errors ==
  { ErrorOf("missing_staged_file", p) : p \in ErrorPaths }
    \cup { ErrorOf(c, Path(0, 0)) :
             c \in {"remote_upload_error", "persistence_error", "upload_rejected"} }

\* The catch blocks and the errors that reach them.
Catchers ==
  {"createPress", "updatePressUpload", "updatePress", "deletePress",
   "deleteAttachment", "uploadMedia", "router", "globalErrorHandler"}

Reaches(err, catcher) ==
  CASE catcher = "createPress" ->
         err.cause \in {"missing_staged_file", "remote_upload_error", "persistence_error"}
    [] catcher = "updatePressUpload" ->
         err.cause \in {"missing_staged_file", "remote_upload_error"}
    [] catcher \in {"updatePress", "deletePress", "deleteAttachment", "uploadMedia"} ->
         err.cause = "persistence_error"
    [] catcher = "router" ->
         err.cause \in {"upload_rejected", "persistence_error"}
    [] OTHER -> err.cause = "upload_rejected"

\* error: process.env.NODE_ENV === 'development' ? error.message : undefined
DevMessage(env, err) ==
  IF env = "development" THEN [texts |-> {err.cause}, paths |-> err.paths]
  ELSE [texts |-> {}, paths |-> {}]

\* The body res.status(..).json(..) sends.
ErrorBody(catcher, env, err) ==
  CASE catcher = "createPress" ->
         [status |-> 400,
          texts |-> {"Failed to create press release"} \cup DevMessage(env, err).texts,
          paths |-> DevMessage(env, err).paths, stack |-> FALSE]
    [] catcher = "updatePressUpload" ->
         [status |-> 400,
          texts |-> {"Failed to upload"} \cup DevMessage(env, err).texts,
          paths |-> DevMessage(env, err).paths, stack |-> FALSE]
    [] catcher = "updatePress" ->
         [status |-> 500,
          texts |-> {"Failed to update press release"}
                      \cup DevMessage(env, err).texts,
          paths |-> DevMessage(env, err).paths, stack |-> FALSE]
    [] catcher \in {"deletePress", "deleteAttachment", "uploadMedia"} ->
         [status |-> 500, texts |-> {"Server error"}, paths |-> {}, stack |-> FALSE]
    [] catcher = "router" ->
         [status |-> 500,
          texts |-> {"Internal server error"} \cup DevMessage(env, err).texts,
          paths |-> DevMessage(env, err).paths, stack |-> FALSE]
    [] OTHER ->
         \* globalErrorHandler: sendErrorDev in development, else sendErrorProd
         \* (a plain Error is not operational: 'Something went wrong!').
         IF env = "development"
           THEN [status |-> 500, texts |-> {err.cause}, paths |-> err.paths,
                 stack |-> TRUE]
           ELSE [status |-> 500, texts |-> {"Something went wrong!"}, paths |-> {},
                 stack |-> FALSE]

NotReply == <<reqNo, req, pc, task, res, completed, filesToCleanup, cleanupArg,
              data, existingPress, disk, remote, created, destroyLog, pressDb, idx,
              responses, mediaVars, cleanVars, histVars, gateway, updater, classify, workflow>>

\* An error is thrown where one of the catch blocks will receive it.
Throw ==
  /\ reply.pc \in {"idle", "sent"}
  /\ reply.n < MaxCalls
  /\ \E catcher \in Catchers, err \in Errors :
       /\ Reaches(err, catcher)
       /\ reply' = [reply EXCEPT !.pc = "caught", !.catcher = catcher, !.err = err,
                                 !.body = NoBody, !.n = @ + 1]
  /\ UNCHANGED NotReply

\* The catch block answers.
SendError ==
  /\ reply.pc = "caught"
  /\ reply' = [reply EXCEPT !.pc = "sent",
                            !.body = ErrorBody(reply.catcher, reply.env, reply.err)]
  /\ UNCHANGED NotReply

InitErrors ==
  /\ reqNo = 0
  /\ req = NoRequest
  /\ pc = "end"
  /\ task = [f \in AllFileIds |-> "idle"]
  /\ res = [f \in AllFileIds |-> NoResult]
  /\ completed = <<>>
  /\ filesToCleanup = <<>>
  /\ cleanupArg = <<>>
  /\ data = NoData
  /\ existingPress = NoRecord
  /\ disk = {}
  /\ remote = {}
  /\ created = {}
  /\ destroyLog = {}
  /\ pressDb = [i \in 1..MaxRequests |-> NoRecord]
  /\ idx = 1
  /\ responses = <<>>
  /\ mediaDb = {}
  /\ uploadedMedia = <<>>
  /\ mediaItem = NoMedia
  /\ outcome = [f \in AllFileIds |-> "none"]
  /\ cleaner = <<>>
  /\ gateway = <<>>
  /\ updater = [p \in 1..MaxUpdaters |-> NoUpdater]
  /\ finalRuns = 0
  /\ unlinkCalls = [f \in AllFileIds |-> 0]
  /\ \E env \in Envs : reply = [NoReply EXCEPT !.env = env]
  /\ classify = NoClassify
  /\ workflow = [i \in 1..MaxRequests |-> NoWorkflow]

NextErrors ==
  \/ Throw
  \/ SendError

SpecErrors == InitErrors /\ [][NextErrors]_vars

----------------------------------------------------------------------------
\* Classification of one file: the upload filter decides on it, then
\* uploadToCloudinary derives the resource type of the remote upload from the
\* extension of the staged path (multer keeps the original name's extension),
\* then the attachments callback derives the stored type from the MIME type.

Extensions == allowedImageTypes \cup allowedVideoTypes \cup allowedDocTypes \cup {"exe"}

\* Files a client may send, by MIME class and extension.
Files == [mime : {"image", "video", "application"}, ext : Extensions]

NotClassify == <<reqNo, req, pc, task, res, completed, filesToCleanup, cleanupArg,
                 data, existingPress, disk, remote, created, destroyLog, pressDb, idx,
                 responses, mediaVars, cleanVars, histVars, gateway, updater, reply, workflow>>

\* multer calls fileFilter for the file.
FilterFile ==
  /\ classify.pc = "sent"
  /\ classify' = [classify EXCEPT
                    !.pc = IF fileFilter(classify.file) THEN "staged" ELSE "rejected"]
  /\ UNCHANGED NotClassify

\* uploadToCloudinary: resource_type of cloudinary.uploader.upload.
ClassifyUpload ==
  /\ classify.pc = "staged"
  /\ classify' = [classify EXCEPT !.pc = "uploaded",
                                  !.resourceType = ResourceTypeOf(classify.file.ext)]
  /\ UNCHANGED NotClassify

\* attachments.map callback: type of the attachment object.
ClassifyAttachment ==
  /\ classify.pc = "uploaded"
  /\ classify' = [classify EXCEPT !.pc = "recorded",
                                  !.type = AttachmentType(classify.file.mime)]
  /\ UNCHANGED NotClassify

InitClassify ==
  /\ reqNo = 0
  /\ req = NoRequest
  /\ pc = "end"
  /\ task = [f \in AllFileIds |-> "idle"]
  /\ res = [f \in AllFileIds |-> NoResult]
  /\ completed = <<>>
  /\ filesToCleanup = <<>>
  /\ cleanupArg = <<>>
  /\ data = NoData
  /\ existingPress = NoRecord
  /\ disk = {}
  /\ remote = {}
  /\ created = {}
  /\ destroyLog = {}
  /\ pressDb = [i \in 1..MaxRequests |-> NoRecord]
  /\ idx = 1
  /\ responses = <<>>
  /\ mediaDb = {}
  /\ uploadedMedia = <<>>
  /\ mediaItem = NoMedia
  /\ outcome = [f \in AllFileIds |-> "none"]
  /\ cleaner = <<>>
  /\ gateway = <<>>
  /\ updater = [p \in 1..MaxUpdaters |-> NoUpdater]
  /\ finalRuns = 0
  /\ unlinkCalls = [f \in AllFileIds |-> 0]
  /\ reply = NoReply
  /\ \E file \in Files : classify = [NoClassify EXCEPT !.pc = "sent", !.file = file]
  /\ workflow = [i \in 1..MaxRequests |-> NoWorkflow]

NextClassify ==
  \/ FilterFile
  \/ ClassifyUpload
  \/ ClassifyAttachment

SpecClassify == InitClassify /\ [][NextClassify]_vars

----------------------------------------------------------------------------
\* Publication workflow of a press release: the published flag and the status
\* as createPress, updatePress and toggleFeatured store them.

\* status: enum of pressSchema.
Statuses == {"draft", "scheduled", "published", "archived"}

\* A field of req.body the client may leave out.
Absent == "absent"

\* Values of a boolean field of the multipart body: strings.
BodyFlags == {"true", "false", Absent}

\* pressSchema.pre('save'): the published flag and the status are synchronised.
PreSave(doc) ==
  IF doc.published /\ doc.status = "draft"
    THEN [doc EXCEPT !.status = "published"]
    ELSE IF ~doc.published /\ doc.status = "published"
      THEN [doc EXCEPT !.status = "draft"]
      ELSE doc

NotWorkflow == <<reqNo, req, pc, task, res, completed, filesToCleanup, cleanupArg,
                 data, existingPress, disk, remote, created, destroyLog, pressDb, idx,
                 responses, mediaVars, cleanVars, histVars, gateway, updater, reply,
                 classify>>

\* createPress: published and featured are req.body.x === 'true', status is
\* the body's or the schema default; Press.create runs the save middleware.
PressCreate ==
  /\ \E id \in 1..MaxRequests, published \in BodyFlags, featured \in BodyFlags,
        status \in Statuses \cup {Absent} :
       /\ ~workflow[id].exists
       /\ workflow' = [workflow EXCEPT ![id] =
            PreSave([exists |-> TRUE, published |-> published = "true",
                     status |-> IF status = Absent THEN "draft" ELSE status,
                     featured |-> featured = "true"])]
  /\ UNCHANGED NotWorkflow

\* updatePress: Press.findByIdAndUpdate(id, {...req.body, ...}) sets the fields
\* the body carries (mongoose casts 'true' / 'false' to the Boolean); query
\* middleware only, the save middleware does not run.
PressUpdate ==
  /\ \E id \in 1..MaxRequests, published \in BodyFlags,
        status \in Statuses \cup {Absent} :
       /\ workflow[id].exists
       /\ workflow' = [workflow EXCEPT ![id] =
            [@ EXCEPT !.published = IF published = Absent THEN @
                                    ELSE published = "true",
                      !.status = IF status = Absent THEN @ ELSE status]]
  /\ UNCHANGED NotWorkflow

\* toggleFeatured: findById, featured = !featured, save().
toggleFeatured ==
  /\ \E id \in 1..MaxRequests :
       /\ workflow[id].exists
       /\ workflow' = [workflow EXCEPT ![id] = PreSave([@ EXCEPT !.featured = ~@])]
  /\ UNCHANGED NotWorkflow

InitWorkflow ==
  /\ reqNo = 0
  /\ req = NoRequest
  /\ pc = "end"
  /\ task = [f \in AllFileIds |-> "idle"]
  /\ res = [f \in AllFileIds |-> NoResult]
  /\ completed = <<>>
  /\ filesToCleanup = <<>>
  /\ cleanupArg = <<>>
  /\ data = NoData
  /\ existingPress = NoRecord
  /\ disk = {}
  /\ remote = {}
  /\ created = {}
  /\ destroyLog = {}
  /\ pressDb = [i \in 1..MaxRequests |-> NoRecord]
  /\ idx = 1
  /\ responses = <<>>
  /\ mediaDb = {}
  /\ uploadedMedia = <<>>
  /\ mediaItem = NoMedia
  /\ outcome = [f \in AllFileIds |-> "none"]
  /\ cleaner = <<>>
  /\ gateway = <<>>
  /\ updater = [p \in 1..MaxUpdaters |-> NoUpdater]
  /\ finalRuns = 0
  /\ unlinkCalls = [f \in AllFileIds |-> 0]
  /\ reply = NoReply
  /\ classify = NoClassify
  /\ workflow = [i \in 1..MaxRequests |-> NoWorkflow]

NextWorkflow ==
  \/ PressCreate
  \/ PressUpdate
  \/ toggleFeatured

SpecWorkflow == InitWorkflow /\ [][NextWorkflow]_vars

----------------------------------------------------------------------------
\* Properties.

RequestPaths == StagedPaths(reqNo, req)
Leftover == RequestPaths \cap disk
Answered == responses # <<>>
Status == responses[1].status

\* The controller body ran (the router did not end the request before it).
HandlerRan == req.uploadError = "none" /\ (req.chain = "controller" \/ req.valid)

\* Some persisted record references the public id.
Referenced(id) ==
  \/ \E p \in 1..MaxRequests :
       /\ pressDb[p].exists
       /\ \/ pressDb[p].featuredImage.publicId = id
          \/ \E i \in 1..Len(pressDb[p].attachments) :
               pressDb[p].attachments[i].publicId = id
  \/ \E m \in mediaDb : m.publicId = id

\* A destroy call with the asset's own identifier and kind was issued.
DestroyIssued(a) == [publicId |-> a.publicId, kind |-> a.resourceType] \in destroyLog

\* C1: after a createPress / updatePress request whose handler ran has ended
\* and all its uploads have settled, none of its staged files is on disk.
C1_NoStagedFileAfterPress ==
  (Quiescent /\ req.op \in UploadOps /\ HandlerRan) => Leftover = {}

\* C1 on the paths past the validation check: there no staged file remains.
C1_NoStagedFileWhenValid ==
  (Quiescent /\ req.op \in UploadOps /\ req.valid) => Leftover = {}

\* C2: after an upload request has ended and its uploads have settled, every
\* remote asset it created is referenced by a persisted record or is gone.
C2_NoOrphanAsset ==
  (Quiescent /\ req.op \in UploadOps \cup {"uploadMedia"})
    => \A a \in created \cap remote : Referenced(a.publicId)

\* Every upload of the press request resolved and the answer is not a success:
\* Press.create / findByIdAndUpdate rejected.
PressPersistFailed ==
  /\ req.op \in UploadOps
  /\ FileIds(req) # {}
  /\ \A f \in FileIds(req) : task[f] = "ok"
  /\ Answered
  /\ Status \notin {200, 201}

\* C3: when all uploads of a batch succeeded and persisting fails, a delete is
\* issued for every asset of the batch, the answer is 500 and no record of the
\* batch is persisted.
C3_RollbackOnPersistFailure ==
  /\ (Quiescent /\ PressPersistFailed)
       => /\ \A a \in created : DestroyIssued(a)
          /\ Status = 500
          /\ req.op = "createPress" => ~pressDb[req.id].exists
  /\ (Quiescent /\ req.op = "uploadMedia" /\ Answered)
       => \A f \in AttachmentIds(req) :
            outcome[f] = "save_failed"
              => /\ DestroyIssued(Asset(reqNo, f, MediaType(req.atts[f])))
                 /\ Status = 500

\* The files of the request whose remote upload failed / succeeded.
UploadFailed ==
  IF req.op = "uploadMedia"
    THEN { f \in AttachmentIds(req) : outcome[f] = "upload_failed" }
    ELSE { f \in FileIds(req) : task[f] = "failed" }
UploadSucceeded ==
  IF req.op = "uploadMedia"
    THEN { f \in AttachmentIds(req) : outcome[f] = "saved" }
    ELSE { f \in FileIds(req) : task[f] = "ok" }

\* C4: in a batch where exactly one upload fails (and nothing else does), the
\* other files are persisted and the answer reports exactly one failed file.
C4_PartialTolerance ==
  (/\ Quiescent
   /\ req.op \in {"createPress", "uploadMedia"}
   /\ req.valid
   /\ Cardinality(FileIds(req)) >= 2
   /\ Cardinality(UploadFailed) = 1
   /\ UploadSucceeded \cup UploadFailed = FileIds(req))
    => /\ \A f \in UploadSucceeded : Referenced(PublicId(reqNo, f))
       /\ Answered
       /\ Len(responses[1].errors) = 1

\* C5: a request the router ends before the controller body runs leaves no
\* staged file behind once its response is sent.
C5_NoStagedFileAfterRouterExit ==
  (/\ req.chain = "router"
   /\ req.op \in UploadOps \cup {"uploadMediaRoute"}
   /\ ~(req.op \in UploadOps /\ req.valid)
   /\ Answered)
    => Leftover = {}

\* C6: after an uploadMedia request has been answered none of its staged
\* files is on disk.
C6_NoStagedFileAfterUploadMedia ==
  (req.op = "uploadMedia" /\ pc = "end") => Leftover = {}

\* The attachment list is the input list, position by position.
InInputOrder(list, n) ==
  /\ Len(list) = n
  /\ \A i \in 1..n : list[i].filename = i /\ list[i].publicId = PublicId(reqNo, i)

\* The file ids of the list increase.
Increasing(list) ==
  \A i, j \in 1..Len(list) : i < j => list[i].filename < list[j].filename

\* C7: the per-file results are in the order of the input files: the
\* attachments createPress / updatePress assemble and store, and the data
\* array uploadMedia returns.
C7_OrderPreserved ==
  /\ (req.op \in UploadOps /\ data.hasAttachments)
       => InInputOrder(data.attachments, Len(req.atts))
  /\ (req.op = "createPress" /\ Answered /\ Status = 201)
       => /\ InInputOrder(pressDb[req.id].attachments, Len(req.atts))
          /\ responses[1].data[1].attachments = pressDb[req.id].attachments
  /\ (req.op = "updatePress" /\ Answered /\ Status = 200 /\ data.hasAttachments)
       => /\ SubSeq(pressDb[req.id].attachments, 1, Len(existingPress.attachments))
               = existingPress.attachments
          /\ InInputOrder(SubSeq(pressDb[req.id].attachments,
                                 Len(existingPress.attachments) + 1,
                                 Len(pressDb[req.id].attachments)),
                          Len(req.atts))
  /\ req.op = "uploadMedia"
       => /\ Increasing(uploadedMedia)
          /\ Answered /\ Status = 201 => responses[1].data = uploadedMedia

\* C7's case: two attachments whose uploads settled in the reverse order,
\* stored by a successful createPress.
C7_Witness ==
  /\ req.op = "createPress"
  /\ Answered /\ Status = 201
  /\ Len(req.atts) = 2
  /\ SelectSeq(completed, LAMBDA f : f >= 1) = <<2, 1>>

\* C8: 400 exactly when validation rejected the request, 500 when every file
\* failed, 201 only when a file succeeded.
C8_StatusCodes ==
  (/\ Quiescent
   /\ req.op \in {"createPress", "uploadMedia"}
   /\ HandlerRan
   /\ FileIds(req) # {})
    => /\ Answered
       /\ Status = 400 <=> ~req.valid
       /\ (req.valid /\ UploadSucceeded = {}) => Status = 500
       /\ Status = 201 => UploadSucceeded # {}

\* The public ids the removed record or attachment references.
RemovedIds ==
  IF req.op = "deletePress"
    THEN {existingPress.featuredImage.publicId}
           \cup { existingPress.attachments[i].publicId :
                    i \in 1..Len(existingPress.attachments) }
    ELSE IF req.op = "deleteAttachment"
      THEN {existingPress.attachments[req.att].publicId}
      ELSE {mediaItem.publicId}

\* C9: a successful removal has issued, for every remote asset the removed
\* item references, a delete with that asset's identifier and kind.
C9_DeleteMatchesAsset ==
  (/\ req.op \in DeleteOps \cup {"deleteMedia"}
   /\ pc = "end"
   /\ Answered
   /\ Status = 200)
    => \A a \in remote : a.publicId \in RemovedIds => DestroyIssued(a)

\* The cleaners that actually removed the path.
Removers(path) ==
  { i \in 1..Len(cleaner) : cleaner[i].path = path /\ cleaner[i].hit = "unlinked" }

\* C10: no release of a staged file raises, whatever the interleaving of the
\* checks and unlinks on the same path; a release that has returned leaves the
\* path absent, and at most one release of a path removes anything.
C10_ReleaseIdempotent ==
  /\ \A i \in 1..Len(cleaner) :
       /\ cleaner[i].pc # "threw"
       /\ cleaner[i].pc = "returned" => cleaner[i].path \notin disk
  /\ \A path \in CleanupPaths : Cardinality(Removers(path)) <= 1

\* C10's case: two releases of one path both passed the existence check, one
\* unlinked the file, the other's unlink met ENOENT and still returned.
C10_Witness ==
  \E i, j \in 1..Len(cleaner) :
    /\ i # j
    /\ cleaner[i].path = cleaner[j].path
    /\ cleaner[i].pc = "returned" /\ cleaner[i].hit = "unlinked"
    /\ cleaner[j].pc = "returned" /\ cleaner[j].hit = "ENOENT"
    /\ cleaner[j].at = "unlink"
    /\ \E k \in 1..Len(cleaner) :
         cleaner[k].kind = "cleanupTempFiles" /\ cleaner[k].path = cleaner[i].path

\* The calls of the delete helpers that were made with the identifier.
CallsOn(id) == { i \in 1..Len(gateway) : gateway[i].publicId = id }

ThumbFailed(f) ==
  /\ req.op = "uploadMedia"
  /\ f \in AttachmentIds(req)
  /\ MediaType(req.atts[f]) = "video"
  /\ outcome[f] \in {"uploaded", "saved", "save_failed"}
  /\ ~(idx = f /\ pc = "media_thumbnail")
  /\ Thumbnail(PublicId(reqNo, f)) \notin created

RecordIds(pdb, mdb) ==
  UNION { ({pdb[p].featuredImage.publicId} \ {NoId})
            \cup { pdb[p].attachments[i].publicId : i \in 1..Len(pdb[p].attachments) }
          : p \in { q \in 1..MaxRequests : pdb[q].exists } }
    \cup { m.publicId : m \in mdb }

C14_PressFinallyOnce ==
  /\ finalRuns <= 1
  /\ (req.op \in UploadOps /\ HandlerRan /\ Answered) => finalRuns = 1

\* C14: when an upload handler that was given staged files has ended, its
\* final cleanup has run exactly once: the finally block of createPress /
\* updatePress was entered once, uploadMedia released each staged file once.
C14_CleanupExactlyOnce ==
  (pc = "end" /\ HandlerRan /\ Answered /\ FileIds(req) # {})
    => /\ req.op \in UploadOps => finalRuns = 1
       /\ req.op = "uploadMedia"
            => \A f \in AttachmentIds(req) : unlinkCalls[f] = 1

\* The public ids of the stored attachments of the shared release.
StoredIds ==
  { pressDb[SHARED].attachments[i].publicId : i \in 1..Len(pressDb[SHARED].attachments) }

\* C15: when concurrent updatePress requests on one release have all answered
\* 200, the stored attachment list holds the attachments that were there
\* before and the new attachments of every request.
C15_ConcurrentAppends ==
  (\A p \in Updaters : updater[p].pc = "done" /\ updater[p].status = 200)
    => /\ PublicId(0, 1) \in StoredIds
       /\ \A p \in Updaters : \A i \in 1..updater[p].n : PublicId(p, i) \in StoredIds

\* C15 for a request that runs alone: its attachments are appended to the
\* stored ones.
C15_LastWriterAppended ==
  \A p \in Updaters :
    (updater[p].pc = "done" /\ updater[p].status = 200
       /\ \A q \in Updaters \ {p} : updater[q].pc = "idle")
      => /\ PublicId(0, 1) \in StoredIds
         /\ \A i \in 1..updater[p].n : PublicId(p, i) \in StoredIds

\* The request was rejected by the upload middleware for file type, file size
\* or file count.
Rejected == req.uploadError \in Rejections

\* C16: a request rejected for file type, size or count never starts a remote
\* upload and never reaches a controller; once handleUploadError has run it
\* has exactly one response, a 400, and none of its staged files is on disk.
C16_RejectedBeforeRemoteCall ==
  Rejected =>
    /\ created = {}
    /\ \A f \in AllFileIds : task[f] = "idle" /\ outcome[f] = "none"
    /\ pc \in {"multer_abort", "handleUploadError", "end"}
    /\ Answered => Len(responses) = 1 /\ Status = 400 /\ Leftover = {}
    /\ pc = "end" => Answered

\* C16's case: a request with two files already staged was rejected for an
\* unsupported file and has been answered.
C16_Witness ==
  /\ req.uploadError = "Unsupported file type"
  /\ Len(req.atts) = 2
  /\ req.feat # NoFile
  /\ pc = "end"
  /\ Answered /\ Status = 400

\* C17: when a batch holds one file of an unsupported type among valid files,
\* the valid files of the request are still uploaded and persisted.
C17_ValidFilesProceed ==
  (/\ req.uploadError = "Unsupported file type"
   /\ FileIds(req) # {}
   /\ pc = "end")
    => \A f \in FileIds(req) :
         /\ \E a \in created : a.publicId = PublicId(reqNo, f)
         /\ Referenced(PublicId(reqNo, f))

C19_NoInternalsInResponse ==
  reply.pc = "sent" => reply.body.paths = {} /\ ~reply.body.stack

\* What does hold: outside development no response carries a path or a stack.
C19_NoInternalsOutsideDevelopment ==
  (reply.pc = "sent" /\ reply.env # "development")
    => reply.body.paths = {} /\ ~reply.body.stack

\* C20: the final cleanup of createPress and updatePress runs only when every
\* per-file upload task of the request has settled (succeeded or failed).
C20_CleanupAfterAllTasks ==
  (req.op \in UploadOps /\ pc \in {"cleanup_access", "cleanup_unlink"})
    => \A f \in AllFileIds : task[f] \in Terminal

\* C21: under every interleaving of the attachment callbacks, when the finally
\* block of createPress or updatePress hands the cleanup list to
\* safeFileCleanup, the list holds exactly the registered paths whose upload
\* has not succeeded, each once.
C21_CleanupListExact ==
  [][(finalRuns' = finalRuns + 1 /\ req'.op \in UploadOps)
       => LET registered == IF req'.valid THEN FileIds(req') ELSE {}
              pending == { Path(reqNo', f) : f \in { g \in registered : task'[g] # "ok" } }
          IN /\ Range(cleanupArg') = pending
             /\ Len(cleanupArg') = Cardinality(pending)]_vars

\* Two attachments were uploaded at the same time, one succeeded and one
\* failed, and the cleanup was started with the failed one only.
C21_Witness ==
  /\ req.op \in UploadOps /\ finalRuns = 1 /\ pc = "cleanup_access"
  /\ \E f, g \in AttachmentIds(req) :
       /\ task[f] = "ok" /\ task[g] = "failed"
       /\ cleanupArg = <<Path(reqNo, g)>>

\* C22: when its remote upload call fails, uploadToCloudinary leaves the
\* staged file on disk as it was: the steps from the failed call to the
\* rejection of its promise delete nothing.
C22_FailedUploadKeepsStagedFile ==
  [][\A f \in AllFileIds :
       (task[f] \in {"catch_access", "catch_unlink"} /\ task'[f] # task[f])
         => (Path(reqNo, f) \in disk => Path(reqNo, f) \in disk')]_vars

\* What holds for uploadToCloudinary: when its promise has resolved, the
\* staged copy is gone.
C23_PressUploadReleased ==
  \A f \in AllFileIds : task[f] = "ok" => Path(reqNo, f) \notin disk

\* C23: after a successful remote upload the staged copy is released before
\* any downstream step of that file (thumbnail derivation, persistence,
\* metadata assembly) runs, in uploadToCloudinary and in uploadMedia.
C23_ReleasedBeforeDownstream ==
  /\ C23_PressUploadReleased
  /\ (req.op = "uploadMedia" /\ pc \in {"media_thumbnail", "media_save"})
       => Path(reqNo, idx) \notin disk

\* A remote call (upload or destroy) of the current request has been issued.
Issued ==
  \/ destroyLog # {}
  \/ created # {}
  \/ \E f \in AllFileIds : task[f] = "upload"

\* C24: in createPress and updatePress, when the first remote call of the
\* request is issued every staged file of the request is on the cleanup list.
C24_RegisteredBeforeRemoteCall ==
  [][(req.op \in UploadOps /\ reqNo' = reqNo /\ ~Issued /\ Issued')
       => /\ Range(filesToCleanup) = StagedPaths(reqNo, req)
          /\ Range(filesToCleanup') = StagedPaths(reqNo, req)]_vars

\* An updatePress request with a featured image and an attachment has issued
\* its first remote call, the delete of the old featured image, with both
\* staged files on the list.
C24_Witness ==
  /\ req.op = "updatePress" /\ req.feat # NoFile /\ req.atts # <<>>
  /\ destroyLog # {} /\ created = {}
  /\ Range(filesToCleanup) = StagedPaths(reqNo, req)

\* The extension lists the specification gives for the two kinds.
VideoKindExtensions == {"mp4", "mov", "avi", "webm", "mkv"}
ImageKindExtensions == {"jpg", "jpeg", "png", "gif", "webp", "svg"}

\* C25: a file the upload filter accepted is uploaded as a video exactly when
\* its extension is one of mp4, mov, avi, webm, mkv and as an image exactly
\* when it is one of jpg, jpeg, png, gif, webp, svg.
C25_KindFromExtension ==
  classify.pc \in {"uploaded", "recorded"}
    => /\ classify.resourceType = "video" <=> classify.file.ext \in VideoKindExtensions
       /\ classify.resourceType = "image" <=> classify.file.ext \in ImageKindExtensions

\* What holds: the listed video extensions are uploaded as videos and the
\* listed image extensions as images.
C25_ListedExtensionsClassified ==
  classify.pc \in {"uploaded", "recorded"}
    => /\ classify.file.ext \in VideoKindExtensions => classify.resourceType = "video"
       /\ classify.file.ext \in ImageKindExtensions => classify.resourceType = "image"

\* C28: the type stored for an attachment equals the resource type of its
\* remote upload, for every file the upload filter accepts.
C28_TypeMatchesResourceType ==
  classify.pc = "recorded" => classify.type = classify.resourceType

\* C26: after any outcome of updatePress the featured image stored in the
\* record refers to an asset that is still in the remote store: the request
\* has deleted the old one only if the record now points to another.
C26_FeaturedImageExists ==
  (req.op = "updatePress" /\ HandlerRan /\ Quiescent /\ Answered)
    => LET img == pressDb[req.id].featuredImage.publicId
       IN (img # NoId /\ [publicId |-> img, kind |-> DefaultKind] \in destroyLog)
            => \E a \in remote : a.publicId = img

\* The media records the current request persisted.
PersistedByRequest == { d \in mediaDb : d.publicId.req = reqNo }

\* What holds: a 201 of uploadMedia returns exactly the records the request
\* persisted, and every file of the batch was attempted.
C27_CreatedReturnsPersisted ==
  (req.op = "uploadMedia" /\ pc = "end" /\ Answered /\ Status = 201)
    => /\ Range(responses[1].data) = PersistedByRequest
       /\ \A f \in AttachmentIds(req) : outcome[f] # "none"

C29_ExactlyOneResponse ==
  /\ Len(responses) <= 1
  /\ (reqNo > 0 /\ Quiescent) => Len(responses) = 1

\* uploadMedia ran through a batch in which every file failed and answered
\* once, with its 500 after the loop.
C29_Witness ==
  /\ req.op = "uploadMedia" /\ pc = "end"
  /\ req.atts # <<>> /\ req.valid
  /\ uploadedMedia = <<>>
  /\ Len(responses) = 1 /\ Status = 500

\* C30: every stored press release has a consistent published flag and
\* status: never published with status 'draft', never unpublished with status
\* 'published'.
C30_PublishedMatchesStatus ==
  \A id \in 1..MaxRequests :
    workflow[id].exists
      => /\ ~(workflow[id].published /\ workflow[id].status = "draft")
         /\ ~(~workflow[id].published /\ workflow[id].status = "published")

\* What holds: each save (createPress, toggleFeatured) stores a consistent
\* pair.
C30_SaveSynchronises ==
  [][\A id \in 1..MaxRequests :
       (workflow'[id] # workflow[id]
          /\ (~workflow[id].exists \/ workflow'[id].featured # workflow[id].featured))
         => /\ ~(workflow'[id].published /\ workflow'[id].status = "draft")
            /\ ~(~workflow'[id].published /\ workflow'[id].status = "published")]_vars

====
